---- MODULE Spec2Model ----
(***************************************************************************)
(* Quint Whiteboard: the declaration-to-source compiler (spec.ts) and the  *)
(* editor store with its undo/redo history (store.ts).                     *)
(*                                                                         *)
(* Text is a sequence of lexical tokens: words, punctuation marks, the     *)
(* single blank " " and the line break "\n".  A JavaScript string is the   *)
(* concatenation of its tokens; the empty string is the empty sequence.    *)
(***************************************************************************)
EXTENDS Integers, Sequences, FiniteSets, TLC

VARIABLES
    moduleName,     \* the module name handed to declsToQuint / held by the store
    decls,          \* the declaration collection handed to declsToQuint
    decls2,         \* the same declarations in another insertion order
    code,           \* what declsToQuint(moduleName, decls) returned
    code2,          \* what declsToQuint(moduleName, decls2) returned
    pc,             \* position of the caller of the compiler
    nodes,          \* store: the nodes on the canvas, in array order
    edges,          \* store: the edges between them
    selectedNodeId, \* store: the selected node, NoId for null
    panelWidth,     \* store: width of the side panel
    history,        \* store: the snapshots pushHistory recorded
    historyIndex,   \* store: position in the history, counted from 0; -1 at start
    nextId,         \* the number of ids nanoid has handed out
    ops,            \* handler calls made so far, undo and redo aside
    lastCalls,      \* the last two handlers called, oldest first
    beforeEdit,     \* nodes, edges and moduleName as the last recording edit found them
    beforeUndo,     \* the same three as the last undo found them, and whether it changed them
    panel,          \* execution panel: loading, output, and the App's runResult, showExec
    requests,       \* the calls of quintApi in flight, in the order issued
    fetches,        \* the requests fetch has been called for so far
    clicks,         \* the handler calls of the panel so far
    lastStep,       \* the step of the execution panel taken last
    movedSet,       \* the moved set resolveCollisions was last called with
    resolved        \* the node array that call returned

compilerVars == <<moduleName, decls, decls2, code, code2, pc>>
canvasVars == <<nodes, edges, selectedNodeId, panelWidth>>
storeVars ==
    <<canvasVars, history, historyIndex, nextId, ops, lastCalls, beforeEdit, beforeUndo>>

execVars == <<panel, requests, fetches, clicks, lastStep>>

layoutVars == <<movedSet, resolved>>
vars == <<compilerVars, storeVars, execVars, layoutVars>>

(***************************************************************************)
(* Bounds of the model.                                                    *)
(***************************************************************************)
MaxDecls == 4
MaxOrderDecls == 3
MaxLooseDecls == 3
MaxOps == 2
MaxNamedDecls == 2
MaxBodyLines == 3
MaxRoleDecls == 3
MaxClicks == 2
MaxSiblings == 3
MaxChildren == 2
MaxRefDecls == 3
MaxCanvasNodes == 4

(***************************************************************************)
(* JavaScript values.                                                      *)
(***************************************************************************)
\* the value read from an absent field
undefined == <<"#undefined">>
\* a call that returned text / a call that threw a TypeError
Returned(text) == [threw |-> FALSE, text |-> text]
TypeError == [threw |-> TRUE, text |-> <<>>]
\* the code variable before the compiler has been called
NotGenerated == Returned(<<>>)

\* JavaScript truthiness of a string-or-undefined value
Truthy(s) == s # undefined /\ s # <<>>
\* a || b
OrElse(a, b) == IF Truthy(a) THEN a ELSE b
\* `${s}` in a template literal: undefined prints as the word undefined
Interp(s) == IF s = undefined THEN <<"undefined">> ELSE s

IsSpace(t) == t \in {" ", "\n"}

RECURSIVE trimStart(_)
trimStart(s) ==
    IF s # <<>> /\ IsSpace(Head(s)) THEN trimStart(Tail(s)) ELSE s

RECURSIVE trimEnd(_)
trimEnd(s) ==
    IF s # <<>> /\ IsSpace(s[Len(s)]) THEN trimEnd(SubSeq(s, 1, Len(s) - 1)) ELSE s

trim(s) == trimEnd(trimStart(s))

\* s.split(sep) for a one-token separator: the pieces between the
\* occurrences of sep, in order
split(s, sep) ==
    LET at == { i \in 1..Len(s) : s[i] = sep }
        pos(k) == IF k = 0 THEN 0
                  ELSE IF k > Cardinality(at) THEN Len(s) + 1
                  ELSE CHOOSE i \in at : Cardinality({ j \in at : j <= i }) = k
    IN  [k \in 1..(Cardinality(at) + 1) |-> SubSeq(s, pos(k - 1) + 1, pos(k) - 1)]

\* parts.join(sep)
RECURSIVE join(_, _)
join(parts, sep) ==
    IF parts = <<>> THEN <<>>
    ELSE IF Len(parts) = 1 THEN parts[1]
    ELSE parts[1] \o sep \o join(Tail(parts), sep)

\* arr.map(f) for a sequence
Map(f(_), s) == [i \in 1..Len(s) |-> f(s[i])]

\* s.startsWith(prefix)
startsWith(s, prefix) ==
    Len(s) >= Len(prefix) /\ SubSeq(s, 1, Len(prefix)) = prefix

\* s.toLowerCase(), token by token
lowerToken(t) ==
    CASE t \in {"Bool", "BOOL"} -> "bool"
      [] t \in {"Str", "STR"} -> "str"
      [] t \in {"Int", "INT"} -> "int"
      [] OTHER -> t

toLowerCase(s) == [i \in 1..Len(s) |-> lowerToken(s[i])]

Ind2 == <<" ", " ">>
Ind4 == <<" ", " ", " ", " ">>
NL == <<"\n">>

(***************************************************************************)
(* spec.ts: declarations.                                                  *)
(***************************************************************************)
DeclKind == {"var", "const", "val", "def", "action", "type", "assume"}

\* createDeclaration(id, kind, overrides): absent overrides default to ''
createDeclaration(id, kind, name, type, params, body, role, pure) ==
    [id |-> id, kind |-> kind, name |-> name, type |-> type,
     params |-> params, body |-> body, role |-> role, pure |-> pure]

indentLines(text, indent) ==
    LET ind(l) == indent \o l
    IN  join(Map(ind, split(text, "\n")), NL)

\* /^\s*(nondet|val)\s/.test(l)
isBindingLine(l) ==
    LET t == trimStart(l)
    IN  Len(t) >= 2 /\ t[1] \in {"nondet", "val"} /\ IsSpace(t[2])

\* mutant of withComma: a comma is appended to every line
withComma_always(l) == l \o <<",">>
\* const clean = l.endsWith(',') ? l : l + ','
withComma(l) == IF l[Len(l)] = "," THEN l ELSE l \o <<",">>

\* mutant of displayName: the name is printed as given, no placeholder
displayName_asGiven(d) == d.name
\* const name = d.name || '_unnamed'
displayName(d) == OrElse(d.name, <<"_unnamed">>)

declToQuint(d) ==
    LET name == displayName(d) IN
    CASE d.kind \in {"var", "const"} ->
           Ind2 \o <<d.kind, " ">> \o name \o <<":", " ">> \o OrElse(d.type, <<"int">>)
      [] d.kind = "val" ->
           LET pureVal == IF d.pure = "true" THEN <<"pure", " ">> ELSE <<>>
               ty == IF Truthy(d.type) THEN <<":", " ">> \o d.type ELSE <<>>
           IN  Ind2 \o pureVal \o <<"val", " ">> \o name \o ty \o <<" ", "=", " ">>
                    \o OrElse(d.body, <<"???">>)
      [] d.kind \in {"def", "action"} ->
           LET pureDef == IF d.pure = "true" /\ d.kind = "def"
                          THEN <<"pure", " ">> ELSE <<>>
               params == IF Truthy(d.params) THEN <<"(">> \o d.params \o <<")">> ELSE <<>>
               ret == IF Truthy(d.type) THEN <<":", " ">> \o d.type ELSE <<>>
               body == OrElse(d.body, <<"???">>)
               head == <<d.kind, " ">> \o name \o params \o ret \o <<" ", "=", " ">>
           IN  IF \E i \in 1..Len(body) : body[i] = "\n"
               THEN LET trimmed == trimStart(body)
                        lines == split(body, "\n")
                        hasBindings == \E i \in 1..Len(lines) : isBindingLine(lines[i])
                        alreadyWrapped == \/ startsWith(trimmed, <<"all", " ">>)
                                          \/ startsWith(trimmed, <<"any", " ">>)
                        nonBlank(l) == l # <<>>
                        clause(l) == Ind4 \o withComma(l)
                        clauses == join(Map(clause, SelectSeq(Map(trim, lines), nonBlank)), NL)
                    IN  IF d.kind = "action" /\ ~hasBindings /\ ~alreadyWrapped
                        THEN Ind2 \o <<"action", " ">> \o name \o params \o ret
                                  \o <<" ", "=", " ", "all", " ", "{", "\n">>
                                  \o clauses \o <<"\n", " ", " ", "}">>
                        ELSE Ind2 \o pureDef \o head \o <<"{", "\n">>
                                  \o indentLines(body, Ind4) \o <<"\n", " ", " ", "}">>
               ELSE Ind2 \o pureDef \o head \o body
      [] d.kind = "type" ->
           Ind2 \o <<"type", " ">> \o name \o <<" ", "=", " ">> \o OrElse(d.body, <<"int">>)
      [] d.kind = "assume" ->
           Ind2 \o <<"assume", " ">> \o name \o <<" ", "=", " ">> \o OrElse(d.body, <<"true">>)

\* mutant of KIND_ORDER: variables before constants
KIND_ORDER_varsFirst(kind) ==
    CASE kind = "type" -> 0
      [] kind = "var" -> 1
      [] kind = "const" -> 2
      [] kind = "val" -> 3
      [] kind = "def" -> 4
      [] kind = "action" -> 5
      [] kind = "assume" -> 6

\* Sort order for declaration kinds in generated code
KIND_ORDER(kind) ==
    CASE kind = "type" -> 0
      [] kind = "const" -> 1
      [] kind = "var" -> 2
      [] kind = "val" -> 3
      [] kind = "def" -> 4
      [] kind = "action" -> 5
      [] kind = "assume" -> 6

\* [...decls].sort((a, b) => KIND_ORDER[a.kind] - KIND_ORDER[b.kind]):
\* Array.prototype.sort is stable, so equal keys keep their input order
RECURSIVE sortFrom(_, _)
sortFrom(ds, k) ==
    IF k > 6 THEN <<>>
    ELSE LET hasRank(d) == KIND_ORDER(d.kind) = k
         IN  SelectSeq(ds, hasRank) \o sortFrom(ds, k + 1)

\* mutant of sortByKind: the collection is rendered as inserted
sortByKind_asInserted(ds) == ds

sortByKind(ds) == sortFrom(ds, 0)

\* mutant of parseParamNames: only the first parameter is passed on
parseParamNames_firstOnly(params) ==
    IF params = undefined THEN [threw |-> TRUE, value |-> <<>>]
    ELSE IF trim(params) = <<>> THEN [threw |-> FALSE, value |-> <<>>]
    ELSE LET nameOf(p) == trim(split(p, ":")[1])
             nonEmpty(n) == n # <<>>
             names == SelectSeq(Map(nameOf, split(params, ",")), nonEmpty)
         IN  [threw |-> FALSE, value |-> SubSeq(names, 1, 1)]

\* mutant of parseParamNames: the type annotation is not cut off the name
parseParamNames_keepingTypes(params) ==
    IF params = undefined THEN [threw |-> TRUE, value |-> <<>>]
    ELSE IF trim(params) = <<>> THEN [threw |-> FALSE, value |-> <<>>]
    ELSE LET nonEmpty(n) == n # <<>>
         IN  [threw |-> FALSE,
              value |-> SelectSeq(Map(trim, split(params, ",")), nonEmpty)]

\* parseParamNames(params): params.trim() throws when params is undefined
parseParamNames(params) ==
    IF params = undefined THEN [threw |-> TRUE, value |-> <<>>]
    ELSE IF trim(params) = <<>> THEN [threw |-> FALSE, value |-> <<>>]
    ELSE LET nameOf(p) == trim(split(p, ":")[1])
             nonEmpty(n) == n # <<>>
         IN  [threw |-> FALSE,
              value |-> SelectSeq(Map(nameOf, split(params, ",")), nonEmpty)]

\* the {name, type} pairs one params string contributes, duplicates included
paramPairs(params) ==
    LET pair(part) ==
            LET pieces == Map(trim, split(part, ":"))
            IN  [name |-> pieces[1],
                 type |-> IF Len(pieces) >= 2 THEN OrElse(pieces[2], <<"int">>)
                          ELSE <<"int">>]
        named(p) == p.name # <<>>
    IN  SelectSeq(Map(pair, split(params, ",")), named)

\* keep the first pair of every name (Map.set only when !seen.has(name))
RECURSIVE firstSeen(_, _)
firstSeen(pairs, seen) ==
    IF pairs = <<>> THEN <<>>
    ELSE IF Head(pairs).name \in seen THEN firstSeen(Tail(pairs), seen)
    ELSE <<Head(pairs)>> \o firstSeen(Tail(pairs), seen \cup {Head(pairs).name})

RECURSIVE allPairs(_)
allPairs(actions) ==
    IF actions = <<>> THEN <<>>
    ELSE LET a == Head(actions)
         IN  (IF a.params = undefined \/ trim(a.params) = <<>>
              THEN <<>> ELSE paramPairs(a.params))
             \o allPairs(Tail(actions))

\* mutant of collectUniqueParams: a later occurrence of a name overwrites
\* the type of the first
RECURSIVE lastTypeOf(_, _, _)
lastTypeOf(pairs, n, type) ==
    IF pairs = <<>> THEN type
    ELSE lastTypeOf(Tail(pairs), n, IF Head(pairs).name = n THEN Head(pairs).type ELSE type)

collectUniqueParams_lastWins(actions) ==
    LET firsts == firstSeen(allPairs(actions), {})
    IN  [i \in 1..Len(firsts) |->
            [name |-> firsts[i].name,
             type |-> lastTypeOf(allPairs(actions), firsts[i].name, firsts[i].type)]]

collectUniqueParams(actions) == firstSeen(allPairs(actions), {})

nondetRange(type) ==
    LET t == toLowerCase(type) IN
    IF t = <<"bool">> THEN <<"Set", "(", "true", ",", " ", "false", ")">>
    ELSE IF t = <<"str">>
    THEN <<"Set", "(", "\"a\"", ",", " ", "\"b\"", ",", " ", "\"c\"", ")">>
    ELSE <<"1", ".", "to", "(", "100", ")">>

\* Generate combined init/step actions when multiple actions share a role
isInitAction(d) == d.role = "init" /\ d.kind = "action"
isStepAction(d) == d.role = "step" /\ d.kind = "action"
isNamedAction(d, n) == d.name = <<n>> /\ d.kind = "action"
\* mutant of isInvariant: the kind is not looked at
isInvariant_anyKind(d) == d.role = "invariant" /\ Truthy(d.name)
\* mutant of isInvariant: an unnamed invariant is counted too
isInvariant_unnamedToo(d) == d.role = "invariant" /\ d.kind \in {"val", "def"}
isInvariant(d) == d.role = "invariant" /\ Truthy(d.name) /\ d.kind \in {"val", "def"}

\* mutant of needsInit: an action named "init" does not stop the synthesis
needsInit_ignoringExplicit(ds) ==
    LET initActions == SelectSeq(ds, isInitAction)
    IN  \/ Len(initActions) > 1
        \/ Len(initActions) = 1 /\ initActions[1].name # <<"init">>

needsInit(ds) ==
    LET initActions == SelectSeq(ds, isInitAction)
        hasExplicitInit == \E i \in 1..Len(ds) : isNamedAction(ds[i], "init")
    IN  /\ ~hasExplicitInit
        /\ \/ Len(initActions) > 1
           \/ Len(initActions) = 1 /\ initActions[1].name # <<"init">>

\* mutant of needsStep: a single role=step action gets no combined step
needsStep_onlyMany(ds) ==
    LET stepActions == SelectSeq(ds, isStepAction)
        hasExplicitStep == \E i \in 1..Len(ds) : isNamedAction(ds[i], "step")
    IN  ~hasExplicitStep /\ Len(stepActions) > 1

needsStep(ds) ==
    LET stepActions == SelectSeq(ds, isStepAction)
        hasExplicitStep == \E i \in 1..Len(ds) : isNamedAction(ds[i], "step")
    IN  /\ ~hasExplicitStep
        /\ \/ Len(stepActions) > 1
           \/ Len(stepActions) = 1 /\ stepActions[1].name # <<"step">>

\* mutant of combinedInit: forwards to the first role=init action only
combinedInit_firstOnly(ds) ==
    LET initActions == SelectSeq(ds, isInitAction)
    IN  Ind2 \o <<"action", " ", "init", " ", "=", " ">> \o Interp(initActions[1].name)

combinedInit(ds) ==
    LET initActions == SelectSeq(ds, isInitAction)
        call(a) == Ind4 \o Interp(a.name)
        calls == join(Map(call, initActions), <<",", "\n">>)
    IN  IF Len(initActions) = 1
        THEN Ind2 \o <<"action", " ", "init", " ", "=", " ">> \o Interp(initActions[1].name)
        ELSE Ind2 \o <<"action", " ", "init", " ", "=", " ", "all", " ", "{", "\n">>
                  \o calls \o <<",", "\n", " ", " ", "}">>

combinedStep(ds) ==
    LET stepActions == SelectSeq(ds, isStepAction)
        params == collectUniqueParams(stepActions)
        call(a) ==
            LET args == join(parseParamNames(a.params).value, <<",", " ">>)
            IN  Ind4 \o Interp(a.name)
                     \o (IF args # <<>> THEN <<"(">> \o args \o <<")">> ELSE <<>>)
        calls == join(Map(call, stepActions), <<",", "\n">>)
        binding(p) == Ind4 \o <<"nondet", " ">> \o p.name \o <<" ", "=", " ">>
                           \o nondetRange(p.type) \o <<".", "oneOf", "(", ")">>
        bindings == join(Map(binding, params), NL)
    IN  IF Len(params) > 0
        THEN Ind2 \o <<"action", " ", "step", " ", "=", " ", "{", "\n">> \o bindings
                  \o NL \o Ind4 \o <<"any", " ", "{", "\n">> \o calls
                  \o <<",", "\n">> \o Ind4 \o <<"}", "\n", " ", " ", "}">>
        ELSE Ind2 \o <<"action", " ", "step", " ", "=", " ", "any", " ", "{", "\n">>
                  \o calls \o <<",", "\n", " ", " ", "}">>

\* mutant of needsRun: only the roles count, not the names init and step
needsRun_rolesOnly(ds) ==
    SelectSeq(ds, isInitAction) # <<>> /\ SelectSeq(ds, isStepAction) # <<>>

\* Auto-generate a test run when init + step exist
needsRun(ds) ==
    LET hasInit == \/ SelectSeq(ds, isInitAction) # <<>>
                   \/ \E i \in 1..Len(ds) : isNamedAction(ds[i], "init")
        hasStep == \/ SelectSeq(ds, isStepAction) # <<>>
                   \/ \E i \in 1..Len(ds) : isNamedAction(ds[i], "step")
    IN  hasInit /\ hasStep

combinedRun(ds) ==
    LET invariants == SelectSeq(ds, isInvariant)
        nameOf(inv) == inv.name
        predicate == join(Map(nameOf, invariants), <<" ", "and", " ">>)
    IN  IF Len(invariants) > 0
        THEN Ind2 \o <<"run", " ", "invariantTest", " ", "=", " ", "init", ".", "then",
                       "(", "20", ".", "reps", "(", "_", " ", "=>", " ", "step", ".",
                       "expect", "(">> \o predicate \o <<")", ")", ")">>
        ELSE Ind2 \o <<"run", " ", "simulationTest", " ", "=", " ", "init", ".", "then",
                       "(", "20", ".", "reps", "(", "_", " ", "=>", " ", "step", ")", ")">>

generateCombinedActions(ds) ==
    LET stepActions == SelectSeq(ds, isStepAction)
    IN  IF /\ needsStep(ds)
           /\ \E i \in 1..Len(stepActions) : parseParamNames(stepActions[i].params).threw
        THEN [threw |-> TRUE, value |-> <<>>]
        ELSE [threw |-> FALSE,
              value |-> (IF needsInit(ds) THEN <<combinedInit(ds)>> ELSE <<>>)
                        \o (IF needsStep(ds) THEN <<combinedStep(ds)>> ELSE <<>>)
                        \o (IF needsRun(ds) THEN <<combinedRun(ds)>> ELSE <<>>)]

\* mutant of declsToQuint: the module name is printed as given, no default
declsToQuint_noDefaultName(name, ds) ==
    LET header == <<"module", " ">> \o name \o <<" ", "{", "\n">>
    IN  IF Len(ds) = 0 THEN Returned(header \o <<"}">>)
        ELSE LET lines == Map(declToQuint, sortByKind(ds))
                 combined == generateCombinedActions(ds)
             IN  IF combined.threw THEN TypeError
                 ELSE Returned(header \o join(lines \o combined.value, <<"\n", "\n">>)
                                      \o <<"\n", "}">>)

\* Generate Quint code from a flat list of declarations and a module name
declsToQuint(name, ds) ==
    LET header == <<"module", " ">> \o OrElse(name, <<"Unnamed">>) \o <<" ", "{", "\n">>
    IN  IF Len(ds) = 0 THEN Returned(header \o <<"}">>)
        ELSE LET lines == Map(declToQuint, sortByKind(ds))
                 combined == generateCombinedActions(ds)
             IN  IF combined.threw THEN TypeError
                 ELSE Returned(header \o join(lines \o combined.value, <<"\n", "\n">>)
                                      \o <<"\n", "}">>)

(***************************************************************************)
(* The editor store (store.ts).  A node is a record of id, type, position, *)
(* data, parentId, style and measured; an absent parentId is NoId, an      *)
(* absent style or measured size is the empty tuple, a present one is      *)
(* <<width, height>>.  Ids are the numbers nanoid hands out, from 1.       *)
(***************************************************************************)
GROUP_PADDING == 15
GROUP_HEADER == 30
GROUP_BUTTON_AREA == 40
COLLISION_PAD == 10

\* null or undefined where an id is expected
NoId == 0
\* an absent style or measured size
NoSize == <<>>

Min(a, b) == IF a < b THEN a ELSE b
Max(a, b) == IF a > b THEN a ELSE b
\* the result of folding Math.max over a non-empty set of numbers
maxOf(S) == CHOOSE m \in S : \A x \in S : m >= x

\* the n-th id nanoid hands out after the ones already in use
nanoid(n) == nextId + n

\* node.measured?.width ?? fallback, node.measured?.height ?? fallback
measuredWidth(node, fallback) ==
    IF node.measured = NoSize THEN fallback ELSE node.measured[1]
measuredHeight(node, fallback) ==
    IF node.measured = NoSize THEN fallback ELSE node.measured[2]

\* the indices of a node array that satisfy a test on the node's parentId
RECURSIVE indicesOfParent(_, _, _)
indicesOfParent(ns, key, i) ==
    IF i > Len(ns) THEN <<>>
    ELSE (IF ns[i].parentId = key THEN <<i>> ELSE <<>>) \o indicesOfParent(ns, key, i + 1)

\* mutant of groupHeight: no room is left for the button under the children
groupHeight_noFooter(maxBottom) == maxBottom + GROUP_PADDING
\* const newHeight = maxBottom + GROUP_PADDING + GROUP_BUTTON_AREA
groupHeight(maxBottom) == maxBottom + GROUP_PADDING + GROUP_BUTTON_AREA

resizeGroups(ns) ==
    LET isGroup(n) == n.type = "role-group"
        groups == SelectSeq(ns, isGroup)
        groupIds == { groups[i].id : i \in 1..Len(groups) }
        childrenByGroup(g) ==
            LET inGroup(n) == n.parentId # NoId /\ n.parentId \in groupIds /\ n.parentId = g
            IN  SelectSeq(ns, inGroup)
        resized(node) ==
            LET children == childrenByGroup(node.id)
                maxRight ==
                    maxOf({0} \cup { children[i].position.x
                                        + measuredWidth(children[i], 220)
                                      : i \in 1..Len(children) })
                maxBottom ==
                    maxOf({0} \cup { children[i].position.y
                                        + measuredHeight(children[i], 80)
                                      : i \in 1..Len(children) })
                newWidth == maxRight + GROUP_PADDING
                newHeight == groupHeight(maxBottom)
            IN  IF node.type # "role-group" THEN node
                ELSE IF children = <<>> THEN node
                ELSE IF node.style = <<newWidth, newHeight>> THEN node
                ELSE [node EXCEPT !.style = <<newWidth, newHeight>>]
    IN  IF Len(groups) = 0 THEN ns ELSE [i \in 1..Len(ns) |-> resized(ns[i])]

\* the pairs (i, j), i before j, of a list of indices, in the order of the
\* two nested loops
RECURSIVE siblingPairs(_, _, _)
siblingPairs(idxs, i, j) ==
    IF i > Len(idxs) THEN <<>>
    ELSE IF j > Len(idxs) THEN siblingPairs(idxs, i + 1, i + 2)
    ELSE <<<<idxs[i], idxs[j]>>>> \o siblingPairs(idxs, i, j + 1)

\* mutant of stopIndex: the second node of the pair is stopped, moved or not
stopIndex_second(aIsMoved, bIsMoved, pair) == pair[2]
\* stopI: the dragged node of the pair, the second one when both are dragged
stopIndex(aIsMoved, bIsMoved, pair) ==
    IF aIsMoved /\ ~bIsMoved THEN pair[1]
    ELSE IF bIsMoved /\ ~aIsMoved THEN pair[2]
    ELSE pair[2]

\* mutant of axisOf: equal overlaps are resolved along x
axisOf_tiesToX(ox, oy) == IF ox <= oy THEN "x" ELSE "y"
\* if (ox < oy) the node is moved along x, else along y
axisOf(ox, oy) == IF ox < oy THEN "x" ELSE "y"

\* mutant of pushedTo: on equal coordinates the node is pushed before
pushedTo_tiesBefore(at, blockerAt, blockerPad, stoppedPad) ==
    IF at > blockerAt THEN blockerAt + blockerPad ELSE blockerAt - stoppedPad
\* the new coordinate of the stopped node on the axis it is moved along
pushedTo(at, blockerAt, blockerPad, stoppedPad) ==
    IF at >= blockerAt THEN blockerAt + blockerPad ELSE blockerAt - stoppedPad

\* the body of the inner loop for one pair: the array after it, and whether
\* it moved a node
collide(out, pair, movedIds) ==
    LET a == out[pair[1]]
        b == out[pair[2]]
        aIsMoved == a.id \in movedIds
        bIsMoved == b.id \in movedIds
        aw == measuredWidth(a, 200) + COLLISION_PAD
        ah == measuredHeight(a, 80) + COLLISION_PAD
        bw == measuredWidth(b, 200) + COLLISION_PAD
        bh == measuredHeight(b, 80) + COLLISION_PAD
        ox == Min(a.position.x + aw, b.position.x + bw) - Max(a.position.x, b.position.x)
        oy == Min(a.position.y + ah, b.position.y + bh) - Max(a.position.y, b.position.y)
        stopI == stopIndex(aIsMoved, bIsMoved, pair)
        blockI == IF stopI = pair[1] THEN pair[2] ELSE pair[1]
        blocker == out[blockI]
        stopped == out[stopI]
        blockerPadW == measuredWidth(blocker, 200) + COLLISION_PAD
        blockerPadH == measuredHeight(blocker, 80) + COLLISION_PAD
        stoppedPadW == measuredWidth(stopped, 200) + COLLISION_PAD
        stoppedPadH == measuredHeight(stopped, 80) + COLLISION_PAD
        newPos ==
            IF axisOf(ox, oy) = "x"
            THEN [stopped.position EXCEPT !.x =
                     pushedTo(stopped.position.x, blocker.position.x,
                              blockerPadW, stoppedPadW)]
            ELSE [stopped.position EXCEPT !.y =
                     pushedTo(stopped.position.y, blocker.position.y,
                              blockerPadH, stoppedPadH)]
    IN  IF ~aIsMoved /\ ~bIsMoved THEN [out |-> out, moved |-> FALSE]
        ELSE IF ox <= 0 \/ oy <= 0 THEN [out |-> out, moved |-> FALSE]
        ELSE [out |-> [out EXCEPT ![stopI].position = newPos], moved |-> TRUE]

\* one pass over the pairs of one sibling list
RECURSIVE collisionPass(_, _, _, _, _)
collisionPass(out, pairs, k, movedIds, settled) ==
    IF k > Len(pairs) THEN [out |-> out, settled |-> settled]
    ELSE LET r == collide(out, pairs[k], movedIds)
         IN  IF r.moved THEN collisionPass(r.out, pairs, k + 1, movedIds, FALSE)
             ELSE collisionPass(out, pairs, k + 1, movedIds, settled)

\* at most three passes over one sibling list, stopping once a pass is settled
RECURSIVE collisionPasses(_, _, _, _)
collisionPasses(out, pairs, pass, movedIds) ==
    IF pass >= 3 THEN out
    ELSE LET r == collisionPass(out, pairs, 1, movedIds, TRUE)
         IN  IF r.settled THEN r.out ELSE collisionPasses(r.out, pairs, pass + 1, movedIds)

\* the sibling lists one after the other; a list moves none but its own nodes
RECURSIVE collisionsByParent(_, _, _, _)
collisionsByParent(ns, out, keys, movedIds) ==
    IF keys = {} THEN out
    ELSE LET key == CHOOSE k \in keys : TRUE
             idxs == indicesOfParent(ns, key, 1)
             next == IF Len(idxs) < 2 THEN out
                     ELSE collisionPasses(out, siblingPairs(idxs, 1, 2), 0, movedIds)
         IN  collisionsByParent(ns, next, keys \ {key}, movedIds)

resolveCollisions(ns, movedIds) ==
    IF movedIds = {} THEN ns
    ELSE collisionsByParent(ns, ns, { ns[i].parentId : i \in 1..Len(ns) }, movedIds)

KIND_TO_NODE_TYPE(kind) ==
    CASE kind = "var" -> "state-var"
      [] kind = "const" -> "const"
      [] kind = "val" -> "val"
      [] kind = "def" -> "def"
      [] kind = "action" -> "action"
      [] kind = "type" -> "type"
      [] kind = "assume" -> "val"

\* a node literal; measured is what React Flow adds once it has rendered it
Node(id, type, x, y, data, parentId, style) ==
    [id |-> id, type |-> type, position |-> [x |-> x, y |-> y], data |-> data,
     parentId |-> parentId, style |-> style, measured |-> NoSize]

\* createDeclaration(id, kind, defaults[kind]) of addDeclNode
defaultDeclaration(id, kind) ==
    CASE kind = "var" ->
           createDeclaration(id, kind, <<"myVar">>, <<"int">>, <<>>, <<>>,
                             "undefined", "undefined")
      [] kind = "const" ->
           createDeclaration(id, kind, <<"MY_CONST">>, <<"int">>, <<>>, <<>>,
                             "undefined", "undefined")
      [] kind = "val" ->
           createDeclaration(id, kind, <<"myVal">>, <<>>, <<>>, <<"true">>,
                             "undefined", "undefined")
      [] kind = "def" ->
           createDeclaration(id, kind, <<"myDef">>, <<>>, <<>>, <<"true">>,
                             "undefined", "undefined")
      [] kind = "action" ->
           createDeclaration(id, kind, <<"myAction">>, <<>>, <<>>, <<"true">>,
                             "undefined", "undefined")
      [] kind = "type" ->
           createDeclaration(id, kind, <<"MyType">>, <<>>, <<>>, <<"int">>,
                             "undefined", "undefined")
      [] kind = "assume" ->
           createDeclaration(id, kind, <<"myAssumption">>, <<>>, <<>>, <<"true">>,
                             "undefined", "undefined")

\* balances' = balances.setBy(account, curr => curr <op> amount)
setByBody(op) ==
    <<"balances'", " ", "=", " ", "balances", ".", "setBy", "(", "account", ",", " ",
      "curr", " ", "=>", " ", "curr", " ", op, " ", "amount", ")">>

\* the seven declarations of the bank scaffold, ids in the order drawn
createStateMachineDecls(firstId) ==
    << createDeclaration(firstId, "var", <<"balances">>,
                         <<"str", " ", "->", " ", "int">>, <<>>, <<>>,
                         "undefined", "undefined"),
       createDeclaration(firstId + 1, "val", <<"ADDRESSES">>, <<>>, <<>>,
                         <<"Set", "(", "\"alice\"", ",", " ", "\"bob\"", ",", " ",
                           "\"charlie\"", ")">>,
                         "undefined", "true"),
       createDeclaration(firstId + 2, "action", <<"init">>, <<>>, <<>>,
                         <<"balances'", " ", "=", " ", "ADDRESSES", ".", "mapBy", "(",
                           "_", " ", "=>", " ", "0", ")">>,
                         "init", "undefined"),
       createDeclaration(firstId + 3, "action", <<"deposit">>, <<>>,
                         <<"account", ",", " ", "amount">>, setByBody("+"),
                         "undefined", "undefined"),
       createDeclaration(firstId + 4, "action", <<"withdraw">>, <<>>,
                         <<"account", ",", " ", "amount">>, setByBody("-"),
                         "undefined", "undefined"),
       createDeclaration(firstId + 5, "action", <<"step">>, <<>>, <<>>,
                         <<"nondet", " ", "account", " ", "=", " ", "ADDRESSES", ".",
                           "oneOf", "(", ")", "\n",
                           "nondet", " ", "amount", " ", "=", " ", "1", ".", "to", "(",
                           "100", ")", ".", "oneOf", "(", ")", "\n",
                           "any", " ", "{", "\n",
                           " ", " ", "deposit", "(", "account", ",", " ", "amount", ")",
                           ",", "\n",
                           " ", " ", "withdraw", "(", "account", ",", " ", "amount", ")",
                           ",", "\n",
                           "}">>,
                         "step", "undefined"),
       createDeclaration(firstId + 6, "val", <<"no_negatives">>, <<>>, <<>>,
                         <<"ADDRESSES", ".", "forall", "(", "addr", " ", "=>", " ",
                           "balances", ".", "get", "(", "addr", ")", " ", ">=", " ",
                           "0", ")">>,
                         "invariant", "undefined") >>

RoleGroupData(role, label) == [isGroup |-> TRUE, role |-> role, label |-> label]

\* an edge of the scaffold / an edge drawn by hand (addEdge of React Flow)
scaffoldEdge(source, target, sourceHandle, targetHandle, label) ==
    [id |-> <<"e", source, target>>, source |-> source, target |-> target,
     sourceHandle |-> sourceHandle, targetHandle |-> targetHandle, label |-> label]
connectionEdge(source, target) ==
    [id |-> <<"xy-edge", source, target>>, source |-> source, target |-> target,
     sourceHandle |-> "null", targetHandle |-> "null", label |-> "undefined"]
addEdge(edge, es) ==
    IF \E i \in 1..Len(es) :
           /\ es[i].source = edge.source /\ es[i].target = edge.target
           /\ es[i].sourceHandle = edge.sourceHandle
           /\ es[i].targetHandle = edge.targetHandle
    THEN es
    ELSE Append(es, edge)

\* JSON.parse(JSON.stringify(x)): a copy, element by element; a field that
\* holds undefined is dropped and reads as undefined again
jsonClone(xs) == [i \in 1..Len(xs) |-> xs[i]]

HistoryEntry(ns, es, name) == [nodes |-> ns, edges |-> es, moduleName |-> name]

\* mutant of pushHistory: the oldest entry is never dropped
pushHistory_unbounded ==
    LET entry == HistoryEntry(jsonClone(nodes), jsonClone(edges), moduleName)
        newHistory == Append(SubSeq(history, 1, historyIndex + 1), entry)
    IN  [history |-> newHistory, historyIndex |-> Len(newHistory) - 1]

\* the history and the index pushHistory leaves behind
pushHistory ==
    LET entry == HistoryEntry(jsonClone(nodes), jsonClone(edges), moduleName)
        newHistory == Append(SubSeq(history, 1, historyIndex + 1), entry)
        kept == IF Len(newHistory) > 50 THEN Tail(newHistory) ELSE newHistory
    IN  [history |-> kept, historyIndex |-> Len(kept) - 1]

\* applyNodeChanges of React Flow for removals and moves
RECURSIVE applyNodeChanges(_, _)
applyNodeChanges(changes, ns) ==
    IF changes = <<>> THEN ns
    ELSE LET c == Head(changes)
             stays(n) == n.id # c.id
             moved(n) == IF n.id = c.id THEN [n EXCEPT !.position = c.position] ELSE n
             after == IF c.type = "remove" THEN SelectSeq(ns, stays)
                      ELSE [i \in 1..Len(ns) |-> moved(ns[i])]
         IN  applyNodeChanges(Tail(changes), after)

\* { ...data, ...updates }
spread(data, updates) ==
    [k \in DOMAIN data \cup DOMAIN updates |->
        IF k \in DOMAIN updates THEN updates[k] ELSE data[k]]

(***************************************************************************)
(* Inputs of the handlers.                                                 *)
(***************************************************************************)
\* an id no node has
MissingId == -1
\* the ids a handler is called with: the first, second and last node, and
\* an id no node has
TargetIds ==
    { nodes[i].id : i \in {1, 2, Len(nodes)} \cap (1..Len(nodes)) } \cup {MissingId}
AddedKinds == {"var", "action"}
DropPoints == { [x |-> 0, y |-> 0], [x |-> 300, y |-> 40] }
ScaffoldPoints == { [x |-> 450, y |-> 0] }
TypedNames == { <<>>, <<"Bank">> }
PanelWidths == {300}
Updates == { [name |-> <<"renamed">>] }
NodeChanges ==
    { <<[type |-> "remove", id |-> id, position |-> [x |-> 0, y |-> 0]]>> :
          id \in TargetIds }
    \cup { <<[type |-> "position", id |-> id, position |-> p]>> :
          id \in TargetIds \ {MissingId}, p \in DropPoints }

\* no undo has been called yet
NotUndone == [found |-> HistoryEntry(<<>>, <<>>, <<>>), changed |-> FALSE]

\* bookkeeping of the handler calls
Called(name) ==
    lastCalls' = IF lastCalls = <<>> THEN <<name>>
                 ELSE <<lastCalls[Len(lastCalls)], name>>
Counted == ops < MaxOps /\ ops' = ops + 1
Recorded ==
    /\ history' = pushHistory.history
    /\ historyIndex' = pushHistory.historyIndex
    /\ beforeEdit' = HistoryEntry(nodes, edges, moduleName)
    /\ UNCHANGED beforeUndo
NotRecorded == UNCHANGED <<history, historyIndex, beforeEdit, beforeUndo>>
CompilerIdle == UNCHANGED <<decls, decls2, code, code2, pc>>
PanelIdle == UNCHANGED execVars
LayoutIdle == UNCHANGED layoutVars
\* no call of resolveCollisions observed yet
LayoutFresh == movedSet = {} /\ resolved = <<>>
\* the execution panel before its first rendering, hidden, no request made
PanelMounted ==
    /\ panel = [loading |-> FALSE,
                output |-> [ok |-> "null", output |-> undefined, error |-> undefined],
                runResult |-> [ok |-> "null", output |-> undefined, error |-> undefined],
                showExec |-> FALSE]
    /\ requests = <<>>
    /\ fetches = 0
    /\ clicks = 0
    /\ lastStep = [step |-> "none", endpoint |-> "none", failure |-> "none"]

(***************************************************************************)
(* The handlers of the store.                                              *)
(***************************************************************************)
onNodesChange ==
    \E changes \in NodeChanges :
        LET isRemoval(c) == c.type = "remove"
            removals == SelectSeq(changes, isRemoval)
            movedIds == { changes[i].id : i \in { j \in 1..Len(changes) :
                                                    changes[j].type = "position" } }
            removedIds == { removals[i].id : i \in 1..Len(removals) }
            updated == resolveCollisions(applyNodeChanges(changes, nodes), movedIds)
            keeps(e) == e.source \notin removedIds /\ e.target \notin removedIds
        IN  /\ Counted
            /\ nodes' = resizeGroups(updated)
            /\ IF Len(removals) > 0
               THEN /\ Recorded
                    /\ edges' = SelectSeq(edges, keeps)
                    /\ selectedNodeId' =
                           IF selectedNodeId # NoId /\ selectedNodeId \in removedIds
                           THEN NoId ELSE selectedNodeId
                    /\ Called("onNodesChange:remove")
               ELSE /\ NotRecorded
                    /\ UNCHANGED <<edges, selectedNodeId>>
                    /\ Called("onNodesChange")
            /\ UNCHANGED <<moduleName, panelWidth, nextId>>
            /\ CompilerIdle
            /\ PanelIdle
            /\ LayoutIdle

onConnect ==
    \E source, target \in TargetIds \ {MissingId} :
        /\ source # target
        /\ Counted
        /\ edges' = addEdge(connectionEdge(source, target), edges)
        /\ Called("onConnect")
        /\ NotRecorded
        /\ UNCHANGED <<moduleName, nodes, selectedNodeId, panelWidth, nextId>>
        /\ CompilerIdle
        /\ PanelIdle
        /\ LayoutIdle

undo ==
    /\ IF historyIndex <= 0
       THEN UNCHANGED <<nodes, edges, moduleName, historyIndex>>
       ELSE LET entry == history[historyIndex]
            IN  /\ nodes' = entry.nodes
                /\ edges' = entry.edges
                /\ moduleName' = entry.moduleName
                /\ historyIndex' = historyIndex - 1
    /\ Counted
    /\ Called("undo")
    /\ beforeUndo' = [found |-> HistoryEntry(nodes, edges, moduleName),
                      changed |-> <<nodes', edges', moduleName'>>
                                      # <<nodes, edges, moduleName>>]
    /\ UNCHANGED <<selectedNodeId, panelWidth, history, nextId, beforeEdit>>
    /\ CompilerIdle
    /\ PanelIdle
    /\ LayoutIdle

redo ==
    /\ IF historyIndex >= Len(history) - 1
       THEN UNCHANGED <<nodes, edges, moduleName, historyIndex>>
       ELSE LET entry == history[historyIndex + 2]
            IN  /\ nodes' = entry.nodes
                /\ edges' = entry.edges
                /\ moduleName' = entry.moduleName
                /\ historyIndex' = historyIndex + 1
    /\ Counted
    /\ Called("redo")
    /\ UNCHANGED <<selectedNodeId, panelWidth, history, nextId, beforeEdit, beforeUndo>>
    /\ CompilerIdle
    /\ PanelIdle
    /\ LayoutIdle

setModuleName ==
    \E name \in TypedNames :
        /\ Counted
        /\ moduleName' = name
        /\ Called("setModuleName")
        /\ NotRecorded
        /\ UNCHANGED <<canvasVars, nextId>>
        /\ CompilerIdle
        /\ PanelIdle
        /\ LayoutIdle

addDeclNode ==
    \E kind \in AddedKinds, at \in DropPoints :
        LET id == nanoid(1)
            decl == defaultDeclaration(id, kind)
            newNode == Node(id, KIND_TO_NODE_TYPE(kind), at.x, at.y, decl, NoId, NoSize)
        IN  /\ Counted
            /\ Recorded
            /\ nodes' = Append(nodes, newNode)
            /\ selectedNodeId' = id
            /\ nextId' = nextId + 1
            /\ Called("addDeclNode")
            /\ UNCHANGED <<moduleName, edges, panelWidth>>
            /\ CompilerIdle
            /\ PanelIdle
            /\ LayoutIdle

addStateMachineNodes ==
    \E at \in ScaffoldPoints :
        LET ds == createStateMachineDecls(nanoid(1))
            balancesId == ds[1].id
            addressesId == ds[2].id
            initId == ds[3].id
            depositId == ds[4].id
            withdrawId == ds[5].id
            stepId == ds[6].id
            invId == ds[7].id
            stateGroupId == nanoid(8)
            initGroupId == nanoid(9)
            actionsGroupId == nanoid(10)
            stepGroupId == nanoid(11)
            invGroupId == nanoid(12)
            childX == GROUP_PADDING
            childY1 == GROUP_HEADER + 10
            childY2 == childY1 + 70
            col1 == at.x - 450
            col2 == at.x
            col3 == at.x + 450
            row1 == at.y
            row2 == row1 + 340
            row3 == row1 + 350
            newNodes ==
                << Node(initGroupId, "role-group", col1, row1,
                        RoleGroupData("init", "INIT"), NoId, <<1, 1>>),
                   Node(initId, "action", childX, childY1, ds[3], initGroupId, NoSize),
                   Node(stateGroupId, "role-group", col2, row1,
                        RoleGroupData("state", "STATE"), NoId, <<1, 1>>),
                   Node(balancesId, "state-var", childX, childY1, ds[1], stateGroupId,
                        NoSize),
                   Node(addressesId, "val", childX, childY2, ds[2], stateGroupId, NoSize),
                   Node(actionsGroupId, "role-group", col3, row1,
                        RoleGroupData("actions", "ACTIONS"), NoId, <<1, 1>>),
                   Node(depositId, "action", childX, childY1, ds[4], actionsGroupId,
                        NoSize),
                   Node(withdrawId, "action", childX, childY2, ds[5], actionsGroupId,
                        NoSize),
                   Node(stepGroupId, "role-group", col3, row2,
                        RoleGroupData("step", "STEP"), NoId, <<1, 1>>),
                   Node(stepId, "action", childX, childY1, ds[6], stepGroupId, NoSize),
                   Node(invGroupId, "role-group", col2, row3,
                        RoleGroupData("invariant", "INVARIANTS"), NoId, <<1, 1>>),
                   Node(invId, "val", childX, childY1, ds[7], invGroupId, NoSize) >>
            newEdges ==
                << scaffoldEdge(initGroupId, stateGroupId, "right", "left", "initializes"),
                   scaffoldEdge(stepGroupId, actionsGroupId, "top", "bottom", "calls"),
                   scaffoldEdge(actionsGroupId, stateGroupId, "left", "right", "updates"),
                   scaffoldEdge(stateGroupId, invGroupId, "bottom", "top", "checked by") >>
        IN  /\ Counted
            /\ Recorded
            /\ nodes' = nodes \o newNodes
            /\ edges' = edges \o newEdges
            /\ nextId' = nextId + 12
            /\ Called("addStateMachineNodes")
            /\ UNCHANGED <<moduleName, selectedNodeId, panelWidth>>
            /\ CompilerIdle
            /\ PanelIdle
            /\ LayoutIdle

\* roleConfig[groupRole] ?? roleConfig.step: the node type and declaration
roleConfig(groupRole, id) ==
    CASE groupRole = "state" ->
           [nodeType |-> "state-var",
            decl |-> createDeclaration(id, "var", <<"myVar">>, <<"int">>, <<>>, <<>>,
                                       "undefined", "undefined")]
      [] groupRole = "init" ->
           [nodeType |-> "action",
            decl |-> createDeclaration(id, "action", <<"newInit">>, <<>>, <<>>,
                                       <<"true">>, "init", "undefined")]
      [] groupRole = "actions" ->
           [nodeType |-> "action",
            decl |-> createDeclaration(id, "action", <<"newAction">>, <<>>, <<>>,
                                       <<"true">>, "undefined", "undefined")]
      [] groupRole = "invariant" ->
           [nodeType |-> "val",
            decl |-> createDeclaration(id, "val", <<"newInvariant">>, <<>>, <<>>,
                                       <<"true">>, "invariant", "undefined")]
      [] OTHER ->
           [nodeType |-> "action",
            decl |-> createDeclaration(id, "action", <<"step">>, <<>>, <<>>,
                                       <<"true">>, "step", "undefined")]

addNodeToGroup ==
    \E groupId \in TargetIds :
        LET found == { i \in 1..Len(nodes) : nodes[i].id = groupId }
            groupData == IF found = {} THEN [none |-> TRUE]
                         ELSE nodes[CHOOSE i \in found : \A j \in found : i <= j].data
            groupRole == IF "role" \in DOMAIN groupData /\ groupData.role # "undefined"
                         THEN groupData.role ELSE "step"
            id == nanoid(1)
            config == roleConfig(groupRole, id)
            ofGroup(n) == n.parentId = groupId
            children == SelectSeq(nodes, ofGroup)
            bottoms == { children[i].position.y + measuredHeight(children[i], 80)
                           + COLLISION_PAD : i \in 1..Len(children) }
            maxBottom == maxOf({GROUP_HEADER + 5} \cup bottoms)
            newNode == Node(id, config.nodeType, GROUP_PADDING, maxBottom, config.decl,
                            groupId, NoSize)
        IN  /\ Counted
            /\ Recorded
            /\ nodes' = resizeGroups(Append(nodes, newNode))
            /\ selectedNodeId' = id
            /\ nextId' = nextId + 1
            /\ Called("addNodeToGroup")
            /\ UNCHANGED <<moduleName, edges, panelWidth>>
            /\ CompilerIdle
            /\ PanelIdle
            /\ LayoutIdle

updateDeclNode ==
    \E nodeId \in TargetIds, updates \in Updates :
        LET updated(n) ==
                IF n.id = nodeId THEN [n EXCEPT !.data = spread(n.data, updates)] ELSE n
        IN  /\ Counted
            /\ nodes' = [i \in 1..Len(nodes) |-> updated(nodes[i])]
            /\ Called("updateDeclNode")
            /\ NotRecorded
            /\ UNCHANGED <<moduleName, edges, selectedNodeId, panelWidth, nextId>>
            /\ CompilerIdle
            /\ PanelIdle
            /\ LayoutIdle

\* mutant of keepsEdge: only the source of the edge is compared
keepsEdge_sourceOnly(e, nodeId) == e.source # nodeId
\* the filter of deleteDeclNode on edges:
\* e.source !== nodeId && e.target !== nodeId
keepsEdge(e, nodeId) == e.source # nodeId /\ e.target # nodeId

deleteDeclNode ==
    \E nodeId \in TargetIds :
        LET stays(n) == n.id # nodeId
            keeps(e) == keepsEdge(e, nodeId)
        IN  /\ Counted
            /\ Recorded
            /\ nodes' = SelectSeq(nodes, stays)
            /\ edges' = SelectSeq(edges, keeps)
            /\ selectedNodeId' = IF selectedNodeId = nodeId THEN NoId ELSE selectedNodeId
            /\ Called("deleteDeclNode")
            /\ UNCHANGED <<moduleName, panelWidth, nextId>>
            /\ CompilerIdle
            /\ PanelIdle
            /\ LayoutIdle

setSelectedNode ==
    \E id \in (TargetIds \ {MissingId}) \cup {NoId} :
        /\ Counted
        /\ selectedNodeId' = id
        /\ Called("setSelectedNode")
        /\ NotRecorded
        /\ UNCHANGED <<moduleName, nodes, edges, panelWidth, nextId>>
        /\ CompilerIdle
        /\ PanelIdle
        /\ LayoutIdle

setPanelWidth ==
    \E width \in PanelWidths :
        /\ Counted
        /\ panelWidth' = width
        /\ Called("setPanelWidth")
        /\ NotRecorded
        /\ UNCHANGED <<moduleName, nodes, edges, selectedNodeId, nextId>>
        /\ CompilerIdle
        /\ PanelIdle
        /\ LayoutIdle

clearCanvas ==
    /\ Counted
    /\ Recorded
    /\ nodes' = <<>>
    /\ edges' = <<>>
    /\ selectedNodeId' = NoId
    /\ panelWidth' = 500
    /\ Called("clearCanvas")
    /\ UNCHANGED <<moduleName, nextId>>
    /\ CompilerIdle
    /\ PanelIdle
    /\ LayoutIdle

\* the store as create() returns it, before any handler has run
StoreCreated ==
    /\ nodes = <<>>
    /\ edges = <<>>
    /\ selectedNodeId = NoId
    /\ panelWidth = 500
    /\ history = <<>>
    /\ historyIndex = -1
    /\ nextId = 0
    /\ ops = 0
    /\ lastCalls = <<>>
    /\ beforeEdit = HistoryEntry(<<>>, <<>>, moduleName)
    /\ beforeUndo = NotUndone

StoreIdle == UNCHANGED storeVars

(***************************************************************************)
(* Inputs of the compiler: declarations as the editor creates them with    *)
(* createDeclaration (every string field present) and as the property      *)
(* panel edits them.  Ids are unique within a collection.                  *)
(***************************************************************************)
NoText == <<>>
Body == <<"true">>
mk(id, kind, name, type, params, body, role, pure) ==
    createDeclaration(id, kind, name, type, params, body, role, pure)

\* actions and invariants: what the synthesis of init, step and run reads
Pool ==
    { mk("l1", "val", <<"safe">>, NoText, NoText, Body, "invariant", "undefined"),
      mk("l2", "def", <<"live">>, <<"bool">>, <<"s">>, Body, "invariant", "true"),
      mk("l3", "val", NoText, NoText, NoText, Body, "invariant", "false"),
      mk("a2", "action", <<"init">>, NoText, NoText, Body, "undefined", "undefined"),
      mk("a3", "action", <<"setup">>, NoText, NoText, Body, "init", "undefined"),
      mk("a4", "action", <<"boot">>, NoText, NoText, Body, "init", "undefined"),
      mk("a5", "action", <<"a">>, NoText,
         <<"x", ":", " ", "int", ",", "s", ":", "Str">>, Body, "step", "undefined"),
      mk("a6", "action", <<"b">>, NoText,
         <<"x", ":", " ", "bool", ",", " ", "y">>, Body, "step", "undefined"),
      mk("a8", "action", <<"step">>, NoText, NoText, Body, "step", "undefined"),
      mk("a9", "action", <<"tick">>, NoText, NoText, Body, "step", "undefined"),
      mk("a10", "action", <<"chk">>, NoText, NoText, Body, "invariant", "undefined") }

\* one declaration or two of every kind: what the ordering reads
KindPool ==
    { mk("t1", "type", <<"T">>, NoText, NoText, <<"int">>, "undefined", "undefined"),
      mk("c1", "const", <<"N">>, <<"int">>, NoText, NoText, "undefined", "undefined"),
      mk("v1", "var", <<"x">>, <<"int">>, NoText, NoText, "undefined", "undefined"),
      mk("v2", "var", <<"y">>, NoText, NoText, NoText, "undefined", "undefined"),
      mk("l1", "val", <<"safe">>, NoText, NoText, Body, "invariant", "undefined"),
      mk("f1", "def", <<"f">>, NoText, <<"s">>, Body, "undefined", "true"),
      mk("a3", "action", <<"setup">>, NoText, NoText, Body, "init", "undefined"),
      mk("a9", "action", <<"tick">>, NoText, NoText, Body, "step", "undefined"),
      mk("s1", "assume", <<"pos">>, NoText, NoText, NoText, "undefined", "undefined") }

\* declarations with optional fields absent (read as undefined)
LoosePool ==
    { mk("u1", "action", <<"a">>, undefined, undefined, undefined, "step", "undefined"),
      mk("u2", "action", <<"b">>, NoText, <<"x">>, Body, "step", "undefined"),
      mk("u3", "action", <<"step">>, undefined, undefined, undefined, "undefined", "undefined"),
      mk("u4", "action", <<"init">>, undefined, undefined, Body, "init", "undefined"),
      mk("u5", "val", <<"v">>, undefined, undefined, undefined, "undefined", "undefined"),
      mk("u6", "def", NoText, undefined, undefined, undefined, "invariant", "undefined"),
      mk("u7", "var", <<"x">>, undefined, undefined, undefined, "undefined", "undefined") }

ModuleNames == {<<>>, <<"MyModule">>}
\* module names as typed into the toolbar field
TypedModuleNames == ModuleNames \cup {<<"Bank">>}

\* the collections of at most n declarations of a pool, ids unique
Collections(pool, n) ==
    UNION { { c \in [1..k -> pool] : \A i, j \in 1..k : c[i].id = c[j].id => i = j }
            : k \in 0..n }

\* the insertion orders of one collection
Reorderings(c) ==
    LET n == Len(c)
        perms == { q \in [1..n -> 1..n] : \A i, j \in 1..n : q[i] = q[j] => i = j }
    IN  { [i \in 1..n |-> c[q[i]]] : q \in perms }

(***************************************************************************)
(* The callers of the compiler.                                            *)
(***************************************************************************)
Generate ==
    /\ pc = "input"
    /\ code' = declsToQuint(moduleName, decls)
    /\ pc' = "generated"
    /\ UNCHANGED <<moduleName, decls, decls2, code2>>
    /\ StoreIdle
    /\ PanelIdle
    /\ LayoutIdle

GenerateReordered ==
    /\ pc = "generated"
    /\ code2' = declsToQuint(moduleName, decls2)
    /\ pc' = "compared"
    /\ UNCHANGED <<moduleName, decls, decls2, code>>
    /\ StoreIdle
    /\ PanelIdle
    /\ LayoutIdle

\* Spec: a collection of actions and invariants is compiled
Init ==
    /\ moduleName = <<"MyModule">>
    /\ decls \in Collections(Pool, MaxDecls)
    /\ decls2 = <<>>
    /\ code = NotGenerated
    /\ code2 = NotGenerated
    /\ pc = "input"
    /\ StoreCreated
    /\ PanelMounted
    /\ LayoutFresh

Next == Generate

Spec == Init /\ [][Next]_vars

\* SpecOrder: a collection and a reordering of it are compiled
InitOrder ==
    /\ moduleName = <<"MyModule">>
    /\ decls \in Collections(KindPool, MaxOrderDecls)
    /\ decls2 \in Reorderings(decls)
    /\ code = NotGenerated
    /\ code2 = NotGenerated
    /\ pc = "input"
    /\ StoreCreated
    /\ PanelMounted
    /\ LayoutFresh

NextOrder == Generate \/ GenerateReordered

SpecOrder == InitOrder /\ [][NextOrder]_vars

\* SpecLoose: declarations with absent optional fields are compiled
InitLoose ==
    /\ moduleName \in ModuleNames
    /\ decls \in Collections(LoosePool, MaxLooseDecls)
    /\ decls2 = <<>>
    /\ code = NotGenerated
    /\ code2 = NotGenerated
    /\ pc = "input"
    /\ StoreCreated
    /\ PanelMounted
    /\ LayoutFresh

NextLoose == Generate

SpecLoose == InitLoose /\ [][NextLoose]_vars

\* the lines a body is typed from: plain clauses, one of them indented and
\* ending in a comma, a blank line, a binding, block openers and a closer
BodyLines ==
    { <<"x'", " ", "=", " ", "1">>,
      <<" ", " ", "y'", " ", "=", " ", "2", ",", " ">>,
      <<>>,
      <<" ", "nondet", " ", "v", " ", "=", " ", "S", ".", "oneOf", "(", ")">>,
      <<"all", " ", "{">>,
      <<"any", "{">>,
      <<"}">> }

\* the bodies of at most n lines, and the absent body
Bodies(n) ==
    { join(ls, NL) : ls \in UNION { [1..k -> BodyLines] : k \in 1..n } } \cup {undefined}

\* type, parameters and purity of the rendered declaration
Signatures ==
    { [type |-> <<>>, params |-> <<>>, pure |-> "undefined"],
      [type |-> <<"int">>, params |-> <<"p">>, pure |-> "true"],
      [type |-> undefined, params |-> undefined, pure |-> "false"] }

\* one declaration of every kind, named or not; a def or an action with
\* every body, the other kinds with an empty and a one-line body
Renderable ==
    { mk("r1", kind, name, sig.type, sig.params, body, "undefined", sig.pure) :
          kind \in {"def", "action"}, name \in {<<>>, <<"f">>},
          sig \in Signatures, body \in Bodies(MaxBodyLines) }
    \cup
    { mk("r1", kind, name, sig.type, sig.params, body, "undefined", sig.pure) :
          kind \in DeclKind \ {"def", "action"}, name \in {<<>>, <<"f">>},
          sig \in Signatures, body \in {<<>>, <<"x", " ", "+", " ", "1">>} }

\* the caller of declToQuint: one declaration is rendered
Render ==
    /\ pc = "input"
    /\ code' = Returned(declToQuint(decls[1]))
    /\ pc' = "rendered"
    /\ UNCHANGED <<moduleName, decls, decls2, code2>>
    /\ StoreIdle
    /\ PanelIdle
    /\ LayoutIdle

\* SpecRender: one declaration is rendered by declToQuint
InitRender ==
    /\ moduleName = <<"MyModule">>
    /\ decls \in { <<d>> : d \in Renderable }
    /\ decls2 = <<>>
    /\ code = NotGenerated
    /\ code2 = NotGenerated
    /\ pc = "input"
    /\ StoreCreated
    /\ PanelMounted
    /\ LayoutFresh

NextRender == Render

SpecRender == InitRender /\ [][NextRender]_vars

\* an initializer, a step and an invariant, and one declaration without a
\* role of each other kind
RolePool ==
    { mk("a3", "action", <<"setup">>, NoText, NoText, Body, "init", "undefined"),
      mk("a9", "action", <<"tick">>, NoText, NoText, Body, "step", "undefined"),
      mk("l1", "val", <<"safe">>, NoText, NoText, Body, "invariant", "undefined"),
      mk("f1", "def", <<"f">>, NoText, <<"s">>, Body, "undefined", "true"),
      mk("v1", "var", <<"x">>, <<"int">>, NoText, NoText, "undefined", "undefined"),
      mk("c1", "const", <<"N">>, <<"int">>, NoText, NoText, "undefined", "undefined"),
      mk("t1", "type", <<"T">>, NoText, NoText, <<"int">>, "undefined", "undefined"),
      mk("s1", "assume", <<"pos">>, NoText, NoText, Body, "undefined", "undefined") }

\* the kinds whose role the retagging changes
RetaggedKinds == {"var", "const", "def", "type", "assume"}

\* a collection with the role of some declarations of those kinds set anew
Retaggings(c) ==
    LET eligible == { i \in 1..Len(c) : c[i].kind \in RetaggedKinds }
    IN  { [i \in 1..Len(c) |-> IF i \in chosen THEN [c[i] EXCEPT !.role = role] ELSE c[i]] :
              chosen \in SUBSET eligible, role \in {"init", "step", "invariant"} }

\* the caller of the compiler on the second collection
GenerateSecond ==
    /\ pc = "generated"
    /\ code2' = declsToQuint(moduleName, decls2)
    /\ pc' = "compared"
    /\ UNCHANGED <<moduleName, decls, decls2, code>>
    /\ StoreIdle
    /\ PanelIdle
    /\ LayoutIdle

\* SpecRoles: a collection and a retagging of it are compiled
InitRoles ==
    /\ moduleName = <<"MyModule">>
    /\ decls \in Collections(RolePool, MaxRoleDecls)
    /\ decls2 \in Retaggings(decls)
    /\ code = NotGenerated
    /\ code2 = NotGenerated
    /\ pc = "input"
    /\ StoreCreated
    /\ PanelMounted
    /\ LayoutFresh

NextRoles == Generate \/ GenerateSecond

SpecRoles == InitRoles /\ [][NextRoles]_vars

\* SpecNames: collections of every kind are compiled under typed module names
InitNames ==
    /\ moduleName \in TypedModuleNames
    /\ decls \in Collections(KindPool, MaxNamedDecls)
    /\ decls2 = <<>>
    /\ code = NotGenerated
    /\ code2 = NotGenerated
    /\ pc = "input"
    /\ StoreCreated
    /\ PanelMounted
    /\ LayoutFresh

NextNames == Generate

SpecNames == InitNames /\ [][NextNames]_vars

\* SpecStore: the handlers of the store are called in any order
InitStore ==
    /\ moduleName = <<"MyModule">>
    /\ decls = <<>>
    /\ decls2 = <<>>
    /\ code = NotGenerated
    /\ code2 = NotGenerated
    /\ pc = "editing"
    /\ StoreCreated
    /\ PanelMounted
    /\ LayoutFresh

NextStore ==
    \/ onNodesChange
    \/ onConnect
    \/ undo
    \/ redo
    \/ setModuleName
    \/ addDeclNode
    \/ addStateMachineNodes
    \/ addNodeToGroup
    \/ updateDeclNode
    \/ deleteDeclNode
    \/ setSelectedNode
    \/ setPanelWidth
    \/ clearCanvas

SpecStore == InitStore /\ [][NextStore]_vars

\* the boxes resolveCollisions is tried on: position, measured size (absent:
\* 200 by 80) and parent; side by side, stacked, on top of each other,
\* touching, and in a group of their own
Boxes ==
    { [x |-> 0, y |-> 0, measured |-> NoSize, parentId |-> NoId],
      [x |-> 150, y |-> 0, measured |-> NoSize, parentId |-> NoId],
      [x |-> 0, y |-> 40, measured |-> NoSize, parentId |-> NoId],
      [x |-> 0, y |-> 0, measured |-> <<80, 80>>, parentId |-> NoId],
      [x |-> 210, y |-> 0, measured |-> NoSize, parentId |-> NoId],
      [x |-> 0, y |-> 0, measured |-> NoSize, parentId |-> 9],
      [x |-> 150, y |-> 0, measured |-> NoSize, parentId |-> 9],
      [x |-> 0, y |-> 40, measured |-> <<80, 80>>, parentId |-> 9] }

\* the node of a box, its id its place in the array
BoxNode(id, box) ==
    [Node(id, "action", box.x, box.y, defaultDeclaration(id, "action"), box.parentId,
          NoSize) EXCEPT !.measured = box.measured]

\* the node arrays of at most MaxSiblings boxes
Layouts ==
    { [i \in 1..Len(boxes) |-> BoxNode(i, boxes[i])] :
          boxes \in UNION { [1..n -> Boxes] : n \in 1..MaxSiblings } }

\* the caller of resolveCollisions: the nodes of some position changes are
\* the moved set
Resolve ==
    \E moved \in SUBSET { nodes[i].id : i \in 1..Len(nodes) } :
        /\ pc = "layout"
        /\ movedSet' = moved
        /\ resolved' = resolveCollisions(nodes, moved)
        /\ pc' = "resolved"
        /\ UNCHANGED <<moduleName, decls, decls2, code, code2>>
        /\ StoreIdle
        /\ PanelIdle

\* SpecCollide: resolveCollisions is applied to one node array
InitCollide ==
    /\ moduleName = <<"MyModule">>
    /\ decls = <<>>
    /\ decls2 = <<>>
    /\ code = NotGenerated
    /\ code2 = NotGenerated
    /\ pc = "layout"
    /\ selectedNodeId = NoId
    /\ edges = <<>>
    /\ panelWidth = 500
    /\ history = <<>>
    /\ historyIndex = -1
    /\ nextId = MaxSiblings
    /\ ops = 0
    /\ lastCalls = <<>>
    /\ nodes \in Layouts
    /\ beforeEdit = HistoryEntry(<<>>, <<>>, moduleName)
    /\ beforeUndo = NotUndone
    /\ PanelMounted
    /\ LayoutFresh

NextCollide == Resolve

SpecCollide == InitCollide /\ [][NextCollide]_vars

\* role actions whose name field was cleared in the property panel, next to
\* named ones, and a value that is rendered before them
RefPool ==
    { mk("n1", "action", NoText, NoText, NoText, Body, "init", "undefined"),
      mk("n2", "action", <<"setup">>, NoText, NoText, Body, "init", "undefined"),
      mk("n3", "action", NoText, NoText, <<"x", ":", " ", "int">>, Body, "step", "undefined"),
      mk("n4", "action", <<"tick">>, NoText, NoText, Body, "step", "undefined"),
      mk("n5", "val", <<"safe">>, NoText, NoText, Body, "invariant", "undefined") }

\* SpecRefs: declsToQuint on collections with named and unnamed role actions
InitRefs ==
    /\ moduleName = <<"MyModule">>
    /\ decls \in Collections(RefPool, MaxRefDecls)
    /\ decls2 = <<>>
    /\ code = NotGenerated
    /\ code2 = NotGenerated
    /\ pc = "input"
    /\ StoreCreated
    /\ PanelMounted
    /\ LayoutFresh

NextRefs == Generate

SpecRefs == InitRefs /\ [][NextRefs]_vars

\* the children resizeGroups is tried on: under the first or the second node,
\* inside the parent or dragged out of it to the left and above, measured
\* or not yet
ChildBoxes ==
    { [x |-> x, y |-> y, measured |-> m, parentId |-> parent] :
          x \in {-300, 0, 15}, y \in {-200, 40},
          m \in {NoSize, <<100, 50>>}, parent \in {1, 2} }

\* a group with no size yet, or with the size that fits one unmeasured
\* child at (0, 40)
GroupStyles == { NoSize, <<235, 175>> }

\* a role group, then a second group or a plain node, then at most
\* MaxChildren children of the two
GroupLayouts ==
    { << Node(1, "role-group", 0, 0, RoleGroupData("state", <<"STATE">>), NoId, style),
         Node(2, second, 400, 0,
              IF second = "role-group" THEN RoleGroupData("init", <<"INIT">>)
              ELSE defaultDeclaration(2, "action"),
              NoId, NoSize) >>
        \o [i \in 1..Len(boxes) |-> BoxNode(i + 2, boxes[i])] :
          style \in GroupStyles, second \in {"role-group", "action"},
          boxes \in UNION { [1..n -> ChildBoxes] : n \in 0..MaxChildren } }

\* the caller of resizeGroups
Resize ==
    /\ pc = "sizing"
    /\ resolved' = resizeGroups(nodes)
    /\ pc' = "resized"
    /\ UNCHANGED <<moduleName, decls, decls2, code, code2, movedSet>>
    /\ StoreIdle
    /\ PanelIdle

\* SpecResize: resizeGroups is applied to one node array
InitResize ==
    /\ moduleName = <<"MyModule">>
    /\ decls = <<>>
    /\ decls2 = <<>>
    /\ code = NotGenerated
    /\ code2 = NotGenerated
    /\ pc = "sizing"
    /\ selectedNodeId = NoId
    /\ edges = <<>>
    /\ panelWidth = 500
    /\ history = <<>>
    /\ historyIndex = -1
    /\ nextId = MaxChildren + 2
    /\ ops = 0
    /\ lastCalls = <<>>
    /\ nodes \in GroupLayouts
    /\ beforeEdit = HistoryEntry(<<>>, <<>>, moduleName)
    /\ beforeUndo = NotUndone
    /\ PanelMounted
    /\ LayoutFresh

NextResize == Resize

SpecResize == InitResize /\ [][NextResize]_vars

\* the number of edits a session starts with: none, and enough to fill the
\* history of 50 entries but for one, and to the brim
EditedBefore == {0, 49, 50}

\* the name typed before the i-th clearCanvas of such a session
nameBeforeClear(i) ==
    IF i = 1 THEN <<"MyModule">> ELSE IF i % 2 = 0 THEN <<"Bank">> ELSE <<>>

\* the store after k rounds of setModuleName and clearCanvas on a created
\* store, and the name typed since: every clearCanvas has pushed the empty
\* canvas under the name of its round
StoreCleared(k, typed) ==
    LET last == nameBeforeClear(IF k = 0 THEN 1 ELSE k)
    IN  /\ moduleName = typed
        /\ nodes = <<>>
        /\ edges = <<>>
        /\ selectedNodeId = NoId
        /\ panelWidth = 500
        /\ history = [i \in 1..k |-> HistoryEntry(<<>>, <<>>, nameBeforeClear(i))]
        /\ historyIndex = k - 1
        /\ nextId = 0
        /\ ops = 0
        /\ lastCalls = (IF k = 0 THEN <<>> ELSE <<"clearCanvas">>)
                            \o (IF typed = last THEN <<>> ELSE <<"setModuleName">>)
        /\ beforeEdit = HistoryEntry(<<>>, <<>>, last)
        /\ beforeUndo = NotUndone

\* SpecHistory: the handlers of the store in a session whose history is
\* empty or about to reach its cap
InitHistory ==
    /\ decls = <<>>
    /\ decls2 = <<>>
    /\ code = NotGenerated
    /\ code2 = NotGenerated
    /\ pc = "editing"
    /\ \E k \in EditedBefore :
           \E typed \in TypedNames \cup {nameBeforeClear(1)} :
               StoreCleared(k, typed)
    /\ PanelMounted
    /\ LayoutFresh

SpecHistory == InitHistory /\ [][NextStore]_vars

\* the store after addDeclNode("var", 0, 0), addDeclNode("action", 300, 40)
\* and onConnect calls between the two nodes, n of them, on a created store;
\* with a third node, after addDeclNode("var", 0, 0) once more
StoreConnected(n, third) ==
    LET first == Node(1, KIND_TO_NODE_TYPE("var"), 0, 0,
                      defaultDeclaration(1, "var"), NoId, NoSize)
        second == Node(2, KIND_TO_NODE_TYPE("action"), 300, 40,
                       defaultDeclaration(2, "action"), NoId, NoSize)
        last == Node(3, KIND_TO_NODE_TYPE("var"), 0, 0,
                     defaultDeclaration(3, "var"), NoId, NoSize)
        joined == IF n = 1 THEN <<connectionEdge(1, 2)>>
                  ELSE <<connectionEdge(1, 2), connectionEdge(2, 1)>>
        pushed == <<HistoryEntry(<<>>, <<>>, moduleName),
                    HistoryEntry(jsonClone(<<first>>), <<>>, moduleName)>>
        found == HistoryEntry(<<first, second>>, joined, moduleName)
    IN  /\ nodes = IF third THEN <<first, second, last>> ELSE <<first, second>>
        /\ edges = joined
        /\ selectedNodeId = IF third THEN 3 ELSE 2
        /\ panelWidth = 500
        /\ history = IF third
                     THEN Append(pushed, HistoryEntry(jsonClone(found.nodes),
                                                      jsonClone(joined), moduleName))
                     ELSE pushed
        /\ historyIndex = IF third THEN 2 ELSE 1
        /\ nextId = IF third THEN 3 ELSE 2
        /\ ops = 0
        /\ lastCalls = IF third THEN <<"onConnect", "addDeclNode">>
                       ELSE <<"addDeclNode", "onConnect">>
        /\ beforeEdit = IF third THEN found
                        ELSE HistoryEntry(<<first>>, <<>>, moduleName)
        /\ beforeUndo = NotUndone

\* SpecEdges: the handlers that add or take away nodes and edges, on a
\* canvas whose nodes are connected
InitEdges ==
    /\ moduleName = <<"MyModule">>
    /\ decls = <<>>
    /\ decls2 = <<>>
    /\ code = NotGenerated
    /\ code2 = NotGenerated
    /\ pc = "editing"
    /\ \E n \in {1, 2}, third \in BOOLEAN : StoreConnected(n, third)
    /\ PanelMounted
    /\ LayoutFresh

NextEdges ==
    \/ onNodesChange
    \/ onConnect
    \/ undo
    \/ redo
    \/ addDeclNode
    \/ deleteDeclNode
    \/ clearCanvas

SpecEdges == InitEdges /\ [][NextEdges]_vars

(***************************************************************************)
(* The execution panel (ExecutionPanel.tsx) and the development server's   *)
(* /api/quint endpoints (vite.config.ts).  A boolean or absent JSON value  *)
(* is one of the words "true", "false", "undefined".                       *)
(***************************************************************************)
\* what execFile hands to its callback: err is "none" for no error, else
\* the error's code: the exit status, "null" when the timeout killed the
\* tool, an errno name when it could not be started
ToolErrors == {"none", "1", "2", "null", "ENOENT"}
ToolOutputs ==
    { <<>>,
      <<"Quint", " ", "REPL", " ", "0.22", "\n", "Type", " ", "\"", ".exit", "\"", "\n",
        ">>>", " ", "2", "\n", ">>>", " ">> }
ToolComplaints == { <<>>, <<"error", ":", " ", "boom">> }
ToolRuns ==
    { [err |-> e, stdout |-> o, stderr |-> x] :
          e \in ToolErrors, o \in ToolOutputs, x \in ToolComplaints }

\* mutant of runQuint: the error of execFile is not looked at
runQuint_errorDropped(run) ==
    [stdout |-> run.stdout, stderr |-> run.stderr, code |-> "0"]
\* code: err ? (err.code ?? 1) : 0
runQuint(run) ==
    [stdout |-> run.stdout, stderr |-> run.stderr,
     code |-> IF run.err = "none" THEN "0"
              ELSE IF run.err = "null" THEN "1" ELSE run.err]

\* the child of the eval endpoint: code: err ? 1 : 0
runRepl(run) ==
    [stdout |-> run.stdout, stderr |-> run.stderr,
     code |-> IF run.err = "none" THEN "0" ELSE "1"]

jsonBoolean(b) == IF b THEN "true" ELSE "false"

\* the lines of the REPL's output that carry results, prompts stripped
replResults(stdout) ==
    LET lines == split(stdout, "\n")
        kept(l) == /\ ~startsWith(l, <<"Quint", " ", "REPL">>)
                   /\ ~startsWith(l, <<"Type", " ", "\"">>)
                   /\ trim(l) # <<">>>">>
                   /\ trim(l) # <<>>
        stripped(l) == trim(IF startsWith(l, <<">>>", " ">>) THEN SubSeq(l, 3, Len(l))
                            ELSE IF startsWith(l, <<">>>">>) THEN Tail(l)
                            ELSE l)
        nonEmpty(l) == Len(l) > 0
    IN  SelectSeq(Map(stripped, SelectSeq(lines, kept)), nonEmpty)

\* the JSON body the server answers with
ExecResult(ok, output) == [ok |-> ok, output |-> output, error |-> undefined]
serverError == [ok |-> "undefined", output |-> undefined, error |-> <<"Error">>]

typecheckReply(run) ==
    LET result == runQuint(run)
    IN  ExecResult(jsonBoolean(result.code = "0"),
                   IF result.code = "0" THEN <<"Typecheck", " ", "passed">>
                   ELSE OrElse(result.stderr, result.stdout))
evalReply(run) ==
    LET child == runRepl(run)
    IN  ExecResult(jsonBoolean(child.code = "0"),
                   OrElse(join(replResults(child.stdout), NL),
                          OrElse(child.stderr, <<"No", " ", "output">>)))
runReply(run) ==
    LET result == runQuint(run)
    IN  ExecResult(jsonBoolean(result.code = "0"), OrElse(result.stdout, result.stderr))

replyOf(endpoint, run) ==
    CASE endpoint = "typecheck" -> typecheckReply(run)
      [] endpoint = "eval" -> evalReply(run)
      [] endpoint = "run" -> runReply(run)

\* the catch branch of a handler: { ok: false, output: String(e) }
caught == ExecResult("false", <<"TypeError", ":", " ", "Failed", " ", "to", " ", "fetch">>)
\* output before any result: null
NoOutput == [ok |-> "null", output |-> undefined, error |-> undefined]

\* what the user typed into the expression field
EvalExprs == { <<>>, <<" ">>, <<"1", " ", "+", " ", "1">> }

\* store.getQuintCode()
getQuintCode ==
    LET isDecl(n) == n.type # "role-group"
        dataOf(n) == n.data
    IN  declsToQuint(moduleName, Map(dataOf, SelectSeq(nodes, isDecl)))

Stepped(step, endpoint, failure) ==
    lastStep' = [step |-> step, endpoint |-> endpoint, failure |-> failure]

\* handleRun: the names of the nodes that are no role group, have the role
\* invariant and a name, joined with ' and ', or 'true' when there is none
runInvariant(ns) ==
    LET named(n) == n.type # "role-group" /\ n.data.role = "invariant"
                        /\ Truthy(n.data.name)
        nameOf(n) == n.data.name
        invNames == Map(nameOf, SelectSeq(ns, named))
    IN  IF Len(invNames) > 0 THEN join(invNames, <<" ", "and", " ">>) ELSE <<"true">>

\* the bodies the handlers hand to quintApi; a field a request does not
\* have is undefined
typecheckBody ==
    [code |-> getQuintCode.text, expr |-> undefined, module |-> undefined,
     invariant |-> undefined]
evalBody(evalExpr) ==
    [code |-> getQuintCode.text, expr |-> evalExpr,
     module |-> OrElse(moduleName, <<"MyModule">>), invariant |-> undefined]
runBody ==
    [code |-> getQuintCode.text, expr |-> undefined, module |-> undefined,
     invariant |-> runInvariant(nodes)]

\* a handler up to its await: loading is set, the output cleared, and
\* quintApi called with the body unless building the body threw
Started(endpoint, body) ==
    /\ clicks < MaxClicks
    /\ clicks' = clicks + 1
    /\ IF getQuintCode.threw
       THEN /\ panel' = [panel EXCEPT !.loading = FALSE, !.output = caught]
            /\ UNCHANGED <<requests, fetches>>
            /\ Stepped("Threw", endpoint, "none")
       ELSE /\ panel' = [panel EXCEPT !.loading = TRUE, !.output = NoOutput]
            /\ requests' = Append(requests, [endpoint |-> endpoint, phase |-> "sent",
                                             reply |-> NoOutput, failure |-> "none",
                                             body |-> body])
            /\ fetches' = fetches + 1
            /\ Stepped("Start", endpoint, "none")

\* the Typecheck button, disabled while loading
handleTypecheck ==
    /\ panel.showExec /\ ~panel.loading
    /\ Started("typecheck", typecheckBody)
    /\ LayoutIdle
    /\ UNCHANGED <<compilerVars, storeVars>>

\* the Evaluate button, disabled while loading, or Enter in the expression field
handleEval ==
    \E evalExpr \in EvalExprs, key \in {"button", "Enter"} :
        /\ panel.showExec
        /\ key = "button" => ~panel.loading
        /\ IF trim(evalExpr) = <<>>
           THEN /\ clicks < MaxClicks
                /\ clicks' = clicks + 1
                /\ Stepped("Return", "eval", "none")
                /\ UNCHANGED <<panel, requests, fetches>>
           ELSE Started("eval", evalBody(evalExpr))
        /\ LayoutIdle
        /\ UNCHANGED <<compilerVars, storeVars>>

\* the Run Simulation button, disabled while loading
handleRun ==
    /\ panel.showExec /\ ~panel.loading
    /\ Started("run", runBody)
    /\ LayoutIdle
    /\ UNCHANGED <<compilerVars, storeVars>>

\* fetch rejects: the server cannot be reached
fetchRejects ==
    \E i \in 1..Len(requests) :
        /\ requests[i].phase = "sent"
        /\ requests' = [requests EXCEPT ![i].phase = "rejected", ![i].failure = "fetch"]
        /\ Stepped("Reject", requests[i].endpoint, "fetch")
        /\ LayoutIdle
        /\ UNCHANGED <<compilerVars, storeVars, panel, fetches, clicks>>

\* the middleware of the server answers a request: the tool is run, or
\* preparing its input file fails
quintApiPlugin ==
    \E i \in 1..Len(requests) :
        /\ requests[i].phase = "sent"
        /\ \/ \E run \in ToolRuns :
                  requests' = [requests EXCEPT
                                  ![i].phase = "answered",
                                  ![i].reply = replyOf(requests[i].endpoint, run),
                                  ![i].failure = CASE run.err = "none" -> "none"
                                                   [] run.err = "null" -> "killed"
                                                   [] OTHER -> "exit"]
           \/ requests' = [requests EXCEPT ![i].phase = "answered",
                                           ![i].reply = serverError,
                                           ![i].failure = "server"]
        /\ Stepped("Serve", requests[i].endpoint, requests'[i].failure)
        /\ LayoutIdle
        /\ UNCHANGED <<compilerVars, storeVars, panel, fetches, clicks>>

\* the rest of a handler after its await: the result or the caught error
\* is shown and loading reset; handleRun also reports to the App, which
\* hides the panel
Settle ==
    \E i \in 1..Len(requests) :
        LET req == requests[i]
            shown == IF req.phase = "rejected" THEN caught ELSE req.reply
            others(k) == IF k < i THEN requests[k] ELSE requests[k + 1]
        IN  /\ req.phase \in {"answered", "rejected"}
            /\ panel' = IF req.endpoint = "run"
                        THEN [loading |-> FALSE, output |-> shown,
                              runResult |-> shown, showExec |-> FALSE]
                        ELSE [panel EXCEPT !.loading = FALSE, !.output = shown]
            /\ requests' = [k \in 1..(Len(requests) - 1) |-> others(k)]
            /\ Stepped("Settle", req.endpoint, req.failure)
            /\ LayoutIdle
            /\ UNCHANGED <<compilerVars, storeVars, fetches, clicks>>

\* the Run button of the toolbar: setShowExec((v) => !v)
onToggleExec ==
    /\ panel' = [panel EXCEPT !.showExec = ~panel.showExec]
    /\ Stepped("Toggle", "none", "none")
    /\ LayoutIdle
    /\ UNCHANGED <<compilerVars, storeVars, requests, fetches, clicks>>

\* SpecExec: the handlers of the execution panel and the server
InitExec ==
    /\ moduleName \in ModuleNames
    /\ decls = <<>>
    /\ decls2 = <<>>
    /\ code = NotGenerated
    /\ code2 = NotGenerated
    /\ pc = "executing"
    /\ StoreCreated
    /\ PanelMounted
    /\ LayoutFresh

NextExec ==
    \/ handleTypecheck
    \/ handleEval
    \/ handleRun
    \/ fetchRejects
    \/ quintApiPlugin
    \/ Settle
    \/ onToggleExec

SpecExec == InitExec /\ [][NextExec]_vars

\* the declarations of the canvases the panel sends requests for: actions of
\* role init and step, and declarations the property panel's role selector
\* (offered for actions and vals) has given the role invariant
RequestPool ==
    << mk(1, "action", <<"setup">>, NoText, NoText, Body, "init", "undefined"),
       mk(2, "action", <<"tick">>, NoText, NoText, Body, "step", "undefined"),
       mk(3, "val", <<"safe">>, NoText, NoText, Body, "invariant", "undefined"),
       mk(4, "action", <<"check">>, NoText, NoText, Body, "invariant", "undefined"),
       mk(5, "val", <<"live">>, NoText, NoText, Body, "invariant", "undefined") >>

\* the nodes of the chosen declarations, in the order of the pool or in
\* the reverse of it
RequestCanvases ==
    LET nodeOf(d) == Node(d.id, KIND_TO_NODE_TYPE(d.kind), 0, 100 * d.id, d, NoId, NoSize)
        chosenSeq(chosen) ==
            LET kth(k) == CHOOSE i \in chosen : Cardinality({ j \in chosen : j <= i }) = k
            IN  [k \in 1..Cardinality(chosen) |-> nodeOf(RequestPool[kth(k)])]
        reversed(ns) == [k \in 1..Len(ns) |-> ns[Len(ns) + 1 - k]]
        forward == { chosenSeq(chosen) :
                       chosen \in { c \in SUBSET (1..Len(RequestPool)) :
                                        Cardinality(c) <= MaxCanvasNodes } }
    IN  forward \cup { reversed(ns) : ns \in forward }

\* SpecRequests: the handlers of the execution panel up to the requests they
\* send, on a canvas with declarations
InitRequests ==
    /\ moduleName \in ModuleNames \cup TypedNames
    /\ decls = <<>>
    /\ decls2 = <<>>
    /\ code = NotGenerated
    /\ code2 = NotGenerated
    /\ pc = "executing"
    /\ nodes \in RequestCanvases
    /\ edges = <<>>
    /\ selectedNodeId = NoId
    /\ panelWidth = 500
    /\ history = <<>>
    /\ historyIndex = -1
    /\ nextId = Len(RequestPool)
    /\ ops = 0
    /\ lastCalls = <<>>
    /\ beforeEdit = HistoryEntry(<<>>, <<>>, moduleName)
    /\ beforeUndo = NotUndone
    /\ PanelMounted
    /\ LayoutFresh

NextRequests ==
    \/ handleTypecheck
    \/ handleEval
    \/ handleRun
    \/ onToggleExec

SpecRequests == InitRequests /\ [][NextRequests]_vars

(***************************************************************************)
(* Reading the generated text back: the module body is cut at blank lines  *)
(* into its declarations; the first Len(decls) of them render the user's   *)
(* declarations and the rest were appended by generateCombinedActions.     *)
(***************************************************************************)
\* the pieces of a text between its blank lines ("\n\n")
SplitAtBlankLines(s) ==
    LET at == { i \in 1..(Len(s) - 1) : s[i] = "\n" /\ s[i + 1] = "\n" }
        pos(k) == IF k = 0 THEN -1
                  ELSE IF k > Cardinality(at) THEN Len(s) + 1
                  ELSE CHOOSE i \in at : Cardinality({ j \in at : j <= i }) = k
    IN  [k \in 1..(Cardinality(at) + 1) |-> SubSeq(s, pos(k - 1) + 2, pos(k) - 1)]

\* the declarations between "module <name> {\n" and "\n}"
Fragments(text) ==
    IF Len(text) <= 7 THEN <<>> ELSE SplitAtBlankLines(SubSeq(text, 7, Len(text) - 2))

UserFragments(text, ds) == SubSeq(Fragments(text), 1, Len(ds))
Appended(text, ds) ==
    LET fr == Fragments(text) IN SubSeq(fr, Len(ds) + 1, Len(fr))

\* the keyword and the name a rendered declaration starts with
FragmentKeyword(f) == IF f[3] = "pure" THEN f[5] ELSE f[3]
FragmentName(f) == IF f[3] = "pure" THEN f[7] ELSE f[5]

\* "  action <n> = ..."
IsPlainAction(f, n) == startsWith(f, <<" ", " ", "action", " ", n, " ", "=", " ">>)
\* "  run <name> = ..."
IsRun(f) == startsWith(f, <<" ", " ", "run", " ">>)

\* among the appended declarations: the synthesized init, step and run
SynthInitsOf(app) == { i \in 1..Len(app) : IsPlainAction(app[i], "init") }
SynthStepsOf(app) == { i \in 1..Len(app) : IsPlainAction(app[i], "step") }
SynthRunsOf(app) == { i \in 1..Len(app) : IsRun(app[i]) }
SynthInits(text, ds) == SynthInitsOf(Appended(text, ds))
SynthSteps(text, ds) == SynthStepsOf(Appended(text, ds))
SynthRuns(text, ds) == SynthRunsOf(Appended(text, ds))

\* what the claims say about a collection, read off the declarations
ActionsNamed(ds, n) ==
    { k \in 1..Len(ds) : ds[k].kind = "action" /\ ds[k].name = <<n>> }
ActionsWithRole(ds, r) ==
    { k \in 1..Len(ds) : ds[k].kind = "action" /\ ds[k].role = r }
RoleActionSeq(ds, r) ==
    LET has(d) == d.kind = "action" /\ d.role = r IN SelectSeq(ds, has)

ClaimedKindOrder == <<"type", "const", "var", "val", "def", "action", "assume">>
ClaimedRank(kind) == CHOOSE i \in 1..Len(ClaimedKindOrder) : ClaimedKindOrder[i] = kind

\* where the k-th declaration must be rendered: after every declaration of
\* an earlier kind and every earlier declaration of its own kind
ClaimedPosition(ds, k) ==
    Cardinality({ j \in 1..Len(ds) :
                    \/ ClaimedRank(ds[j].kind) < ClaimedRank(ds[k].kind)
                    \/ ClaimedRank(ds[j].kind) = ClaimedRank(ds[k].kind) /\ j <= k })

\* C1: declsToQuint renders the user declarations in the kind order type,
\* const, var, val, def, action, assume, two declarations of one kind in
\* their input order, and every synthesized declaration (init, step, run)
\* after all user declarations.
C1_KindOrderStable ==
    pc # "input" =>
        LET fr == Fragments(code.text)
            n == Len(decls)
        IN  /\ ~code.threw
            /\ Len(fr) >= n
            /\ \A k \in 1..n : fr[ClaimedPosition(decls, k)] = declToQuint(decls[k])
            /\ \A i \in (n + 1)..Len(fr) :
                   \/ IsRun(fr[i])
                   \/ IsPlainAction(fr[i], "init")
                   \/ IsPlainAction(fr[i], "step")

\* C1 witness: two actions with a type alias between them were compiled and
\* synthesized declarations were appended.
C1_Witness ==
    /\ pc # "input"
    /\ Len(decls) = 3
    /\ decls[1].kind = "action" /\ decls[2].kind = "type" /\ decls[3].kind = "action"
    /\ Len(Fragments(code.text)) > Len(decls)

\* every fragment of the body that declares an action of the given name
RenderedActions(text, n) ==
    LET fr == Fragments(text)
    IN  { i \in 1..Len(fr) :
            /\ startsWith(fr[i], <<" ", " ", "action", " ", n>>)
            /\ Len(fr[i]) > 5 /\ fr[i][6] \in {" ", "(", ":"} }

\* C2: a synthesized "action init" is appended if and only if no declaration
\* is an action named exactly "init" and at least one action carries role
\* init; when an action named "init" is present no initializer is synthesized,
\* however many actions carry the role, and that action is rendered once.
C2_InitSynthesis ==
    pc = "generated" =>
        LET synth == SynthInits(code.text, decls)
            explicit == ActionsNamed(decls, "init")
        IN  /\ ~code.threw
            /\ (synth # {}) <=> (explicit = {} /\ ActionsWithRole(decls, "init") # {})
            /\ Cardinality(synth) <= 1
            /\ explicit # {} =>
                   /\ synth = {}
                   /\ Cardinality(RenderedActions(code.text, "init")) = Cardinality(explicit)

\* C2 witness: an action named "init" was compiled together with two actions
\* that carry role init.
C2_Witness ==
    /\ pc = "generated"
    /\ Cardinality(ActionsNamed(decls, "init")) = 1
    /\ Cardinality(ActionsWithRole(decls, "init")) >= 2
    /\ Cardinality(RenderedActions(code.text, "init")) = 1

ClaimHasInit(ds) == ActionsWithRole(ds, "init") # {} \/ ActionsNamed(ds, "init") # {}
ClaimHasStep(ds) == ActionsWithRole(ds, "step") # {} \/ ActionsNamed(ds, "step") # {}

\* C5: a run declaration is synthesized if and only if the collection holds
\* an initializer (role init or named "init") and a step (role step or named
\* "step"); a non-empty collection lacking either one gets no run.
C5_RunSynthesis ==
    pc = "generated" =>
        LET runs == SynthRuns(code.text, decls)
        IN  /\ ~code.threw
            /\ (runs # {}) <=> (ClaimHasInit(decls) /\ ClaimHasStep(decls))
            /\ Cardinality(runs) <= 1
            /\ LET fr == Fragments(code.text)
               IN  Cardinality({ i \in 1..Len(fr) : IsRun(fr[i]) }) = Cardinality(runs)

\* C5 witness: a run was synthesized for an initializer known only by its
\* name and a step known only by its role.
C5_Witness ==
    /\ pc = "generated"
    /\ SynthRuns(code.text, decls) # {}
    /\ ActionsWithRole(decls, "init") = {}
    /\ ActionsNamed(decls, "step") = {}

\* the names of the invariants the claim counts, in collection order
ClaimedInvariantNames(ds) ==
    LET counts(d) == d.role = "invariant" /\ d.kind \in {"val", "def"} /\ d.name # <<>>
        nameOf(d) == d.name
    IN  Map(nameOf, SelectSeq(ds, counts))

RECURSIVE AndJoined(_)
AndJoined(names) ==
    IF Len(names) = 1 THEN names[1]
    ELSE names[1] \o <<" ", "and", " ">> \o AndJoined(Tail(names))

\* the expression of a run, after "  run <name> = "
RunExpression(f) == SubSeq(f, 9, Len(f))

TwentyStepsFromInit(step) ==
    <<"init", ".", "then", "(", "20", ".", "reps", "(", "_", " ", "=>", " ">>
        \o step \o <<")", ")">>

\* C6: a synthesized run is 20 repetitions of step from init; with at least
\* one declaration of role invariant, kind val or def and a non-empty name,
\* every repetition expects the "and"-joined conjunction of exactly those
\* names in collection order, and otherwise there is no assertion clause.
C6_RunInvariants ==
    pc = "generated" =>
        LET app == Appended(code.text, decls)
            invs == ClaimedInvariantNames(decls)
        IN  \A i \in SynthRunsOf(app) :
            LET expr == RunExpression(app[i])
            IN  IF invs # <<>>
                THEN expr = TwentyStepsFromInit(
                                <<"step", ".", "expect", "(">> \o AndJoined(invs) \o <<")">>)
                ELSE expr = TwentyStepsFromInit(<<"step">>)

\* C6 witness: a run was synthesized over two counted invariants.
C6_Witness ==
    /\ pc = "generated"
    /\ SynthRuns(code.text, decls) # {}
    /\ Len(ClaimedInvariantNames(decls)) = 2

RECURSIVE AllBlockLines(_)
AllBlockLines(names) ==
    IF names = <<>> THEN <<>>
    ELSE <<" ", " ", " ", " ">> \o Head(names) \o <<",", "\n">> \o AllBlockLines(Tail(names))

\* C10: a synthesized init forwards, with no arguments, to the one action of
\* role init when there is exactly one; with more than one it is an all-block
\* listing every role=init action once, in collection order, with no
\* arguments.
C10_InitShape ==
    pc = "generated" =>
        LET app == Appended(code.text, decls)
            inits == RoleActionSeq(decls, "init")
            nameOf(d) == d.name
            head == <<" ", " ", "action", " ", "init", " ", "=", " ">>
        IN  \A i \in SynthInitsOf(app) :
            LET f == app[i]
            IN  /\ Len(inits) >= 1
                /\ Len(inits) = 1 => f = head \o inits[1].name
                /\ Len(inits) > 1 =>
                       f = head \o <<"all", " ", "{", "\n">>
                                \o AllBlockLines(Map(nameOf, inits)) \o <<" ", " ", "}">>

\* C10 witness: an init was synthesized over two role=init actions.
C10_Witness ==
    /\ pc = "generated"
    /\ SynthInits(code.text, decls) # {}
    /\ Len(RoleActionSeq(decls, "init")) = 2

\* the parameters a comma-separated parameter list declares: the name before
\* the colon and the type after it (empty when none is given)
ClaimParams(params) ==
    LET parts == split(params, ",")
        param(part) ==
            LET pieces == split(part, ":")
            IN  [name |-> trim(pieces[1]),
                 type |-> IF Len(pieces) >= 2 THEN trim(pieces[2]) ELSE <<>>]
        named(q) == q.name # <<>>
    IN  SelectSeq([i \in 1..Len(parts) |-> param(parts[i])], named)

ClaimParamNames(params) ==
    LET ps == ClaimParams(params) IN [i \in 1..Len(ps) |-> ps[i].name]

\* every parameter occurrence of the role=step actions, in collection order
RECURSIVE Occurrences(_)
Occurrences(actions) ==
    IF actions = <<>> THEN <<>>
    ELSE ClaimParams(Head(actions).params) \o Occurrences(Tail(actions))

StepOccurrences(ds) == Occurrences(RoleActionSeq(ds, "step"))
StepParamNames(ds) ==
    LET occ == StepOccurrences(ds) IN { occ[i].name : i \in 1..Len(occ) }

\* the type declared where the name first occurs, int when none is declared
FirstDeclaredType(ds, n) ==
    LET occ == StepOccurrences(ds)
        first == CHOOSE i \in 1..Len(occ) :
                     occ[i].name = n /\ \A j \in 1..(i - 1) : occ[j].name # n
    IN  IF occ[first].type = <<>> THEN <<"int">> ELSE occ[first].type

BoolDomain == <<"Set", "(", "true", ",", " ", "false", ")">>
SampleDomain == <<"Set", "(", "\"a\"", ",", " ", "\"b\"", ",", " ", "\"c\"", ")">>
IntDomain == <<"1", ".", "to", "(", "100", ")">>

\* the domain as the claim words it: the types bool and str, spelled so
DomainAsWorded(type) ==
    IF type = <<"bool">> THEN BoolDomain
    ELSE IF type = <<"str">> THEN SampleDomain
    ELSE IntDomain

\* the domain with the type compared without regard to letter case
DomainIgnoringCase(type) == DomainAsWorded(toLowerCase(type))

IsBinding(line) == startsWith(line, <<" ", " ", " ", " ", "nondet", " ">>)
BindingLines(f) == SelectSeq(split(f, "\n"), IsBinding)
BindingOf(n, domain) ==
    <<" ", " ", " ", " ", "nondet", " ">> \o n \o <<" ", "=", " ">>
        \o domain \o <<".", "oneOf", "(", ")">>

\* C3 as worded: a synthesized step holds exactly one non-deterministic
\* binding per distinct parameter name of the role=step actions, its domain
\* chosen from the type at the name's first occurrence: bool gives
\* Set(true, false), str the 3-element sample set, anything else 1.to(100).
C3_BindingsAsWorded ==
    pc = "generated" =>
        LET app == Appended(code.text, decls)
            names == StepParamNames(decls)
        IN  \A i \in SynthStepsOf(app) :
            LET bl == BindingLines(app[i])
            IN  /\ Len(bl) = Cardinality(names)
                /\ \A n \in names :
                       \E j \in 1..Len(bl) :
                           bl[j] = BindingOf(n, DomainAsWorded(FirstDeclaredType(decls, n)))

\* C3 amended: the same, with the type compared without regard to letter
\* case (Bool counts as bool, Str as str).
C3_BindingsIgnoringCase ==
    pc = "generated" =>
        LET app == Appended(code.text, decls)
            names == StepParamNames(decls)
        IN  \A i \in SynthStepsOf(app) :
            LET bl == BindingLines(app[i])
            IN  /\ Len(bl) = Cardinality(names)
                /\ \A n \in names :
                       \E j \in 1..Len(bl) :
                           bl[j] = BindingOf(n, DomainIgnoringCase(FirstDeclaredType(decls, n)))

\* C3 witness: a step was synthesized over a parameter name that occurs with
\* two different types, the first of them bool.
C3_Witness ==
    /\ pc = "generated"
    /\ SynthSteps(code.text, decls) # {}
    /\ \E i, j \in 1..Len(StepOccurrences(decls)) :
           /\ i < j
           /\ StepOccurrences(decls)[i].name = StepOccurrences(decls)[j].name
           /\ StepOccurrences(decls)[i].type = <<"bool">>
           /\ StepOccurrences(decls)[j].type = <<"int">>
           /\ \A k \in 1..(i - 1) :
                  StepOccurrences(decls)[k].name # StepOccurrences(decls)[i].name

\* the call the claim expects for one role=step action
CallOf(a) ==
    LET names == ClaimParamNames(a.params)
    IN  <<" ", " ", " ", " ">> \o a.name
            \o (IF names = <<>> THEN <<>>
                ELSE <<"(">> \o join(names, <<",", " ">>) \o <<")">>)
            \o <<",">>

\* C4: a step is synthesized if and only if no action is named exactly
\* "step" and at least one action carries role step; it is an any-of choice
\* with exactly one call per role=step action, in collection order, each
\* passing that action's own parameter names; the bindings precede the
\* any-block when a parameter exists, otherwise it is a bare any-block.
C4_StepSynthesis ==
    pc = "generated" =>
        LET app == Appended(code.text, decls)
            synth == SynthStepsOf(app)
            steps == RoleActionSeq(decls, "step")
            calls == [k \in 1..Len(steps) |-> CallOf(steps[k])]
        IN  /\ ~code.threw
            /\ (synth # {}) <=> (ActionsNamed(decls, "step") = {} /\ steps # <<>>)
            /\ Cardinality(synth) <= 1
            /\ \A i \in synth :
                   LET lines == split(app[i], "\n")
                       nb == Len(SelectSeq(lines, IsBinding))
                   IN  IF StepParamNames(decls) # {}
                       THEN /\ nb >= 1
                            /\ \A j \in 2..(nb + 1) : IsBinding(lines[j])
                            /\ lines = <<<<" ", " ", "action", " ", "step", " ", "=", " ", "{">>>>
                                       \o SubSeq(lines, 2, nb + 1)
                                       \o <<<<" ", " ", " ", " ", "any", " ", "{">>>>
                                       \o calls
                                       \o <<<<" ", " ", " ", " ", "}">>, <<" ", " ", "}">>>>
                       ELSE lines = <<<<" ", " ", "action", " ", "step", " ", "=", " ",
                                        "any", " ", "{">>>>
                                    \o calls \o <<<<" ", " ", "}">>>>

\* C4 witness: a step was synthesized over two role=step actions, one with
\* typed parameters and one with none.
C4_Witness ==
    /\ pc = "generated"
    /\ SynthSteps(code.text, decls) # {}
    /\ \E i, j \in 1..Len(RoleActionSeq(decls, "step")) :
           /\ Len(ClaimParamNames(RoleActionSeq(decls, "step")[i].params)) = 2
           /\ ClaimParamNames(RoleActionSeq(decls, "step")[j].params) = <<>>

\* "module <name> {\n ... }" around the body, Unnamed for an empty name
HasEnvelope(text, name) ==
    LET id == IF name = <<>> THEN <<"Unnamed">> ELSE name
    IN  /\ startsWith(text, <<"module", " ">> \o id \o <<" ", "{", "\n">>)
        /\ text[Len(text)] = "}"

\* C7: for every collection and module name, declarations with absent or
\* empty optional fields (type, parameters, body, role, pure) included,
\* declsToQuint returns a module-envelope string and never throws.
C7_TotalEnvelope ==
    pc = "generated" => ~code.threw /\ HasEnvelope(code.text, moduleName)

\* the kinds of the rendered user declarations, in output order
RenderedKinds(userFragments) ==
    [i \in 1..Len(userFragments) |-> FragmentKeyword(userFragments[i])]

\* the rendered user declarations of one kind, in output order
RenderedOfKind(userFragments, kind) ==
    LET ofKind(f) == FragmentKeyword(f) = kind IN SelectSeq(userFragments, ofKind)

FollowsKindPriority(kinds) ==
    \A i, j \in 1..Len(kinds) : i < j => ClaimedRank(kinds[i]) <= ClaimedRank(kinds[j])

\* C9 as worded: two collections of the same declarations in different
\* insertion orders are rendered with the same order of declarations, and
\* that order follows the fixed kind priority.
C9_SameDeclarationOrder ==
    pc = "compared" =>
        LET rendered == UserFragments(code.text, decls)
        IN  /\ rendered = UserFragments(code2.text, decls2)
            /\ FollowsKindPriority(RenderedKinds(rendered))

\* C9 amended: the two outputs list the declaration kinds in the same order,
\* which follows the fixed kind priority; the declarations of one kind appear
\* in each collection's own insertion order.
C9_SameKindOrder ==
    pc = "compared" =>
        LET rendered == UserFragments(code.text, decls)
            rendered2 == UserFragments(code2.text, decls2)
            kinds == RenderedKinds(rendered)
        IN  /\ kinds = RenderedKinds(rendered2)
            /\ FollowsKindPriority(kinds)
            /\ \A kind \in DeclKind :
                   LET ofKind(d) == d.kind = kind
                   IN  /\ RenderedOfKind(rendered, kind)
                            = Map(declToQuint, SelectSeq(decls, ofKind))
                       /\ RenderedOfKind(rendered2, kind)
                            = Map(declToQuint, SelectSeq(decls2, ofKind))

\* C9 witness: a collection of three kinds and a different insertion order
\* of it were both compiled.
C9_Witness ==
    /\ pc = "compared"
    /\ decls # decls2
    /\ Cardinality({ decls[i].kind : i \in 1..Len(decls) }) = 3
    /\ UserFragments(code.text, decls) = UserFragments(code2.text, decls2)

\* the handlers that call pushHistory
RecordingEdits ==
    {"addDeclNode", "addStateMachineNodes", "addNodeToGroup", "deleteDeclNode",
     "clearCanvas", "onNodesChange:remove"}

\* C8: when undo is called right after a history-recording edit, nodes, edges
\* and moduleName are again what they were immediately before that edit,
\* the first edit of a session and clearCanvas included.
C8_UndoRestoresPreEdit ==
    (Len(lastCalls) = 2 /\ lastCalls[2] = "undo" /\ lastCalls[1] \in RecordingEdits)
        => /\ nodes = beforeEdit.nodes
           /\ edges = beforeEdit.edges
           /\ moduleName = beforeEdit.moduleName

\* C11: for an empty collection declsToQuint returns the module envelope
\* with an empty body, so with no synthesized init, step or run; for every
\* collection the envelope carries the given module name, or Unnamed when
\* the given name is empty.
C11_EmptyAndNamedEnvelope ==
    pc = "generated" =>
        LET id == IF moduleName = <<>> THEN <<"Unnamed">> ELSE moduleName
        IN  /\ ~code.threw
            /\ HasEnvelope(code.text, moduleName)
            /\ decls = <<>> => code.text = <<"module", " ">> \o id \o <<" ", "{", "\n", "}">>

\* C11 witness: the empty collection was compiled under the empty name.
C11_Witness ==
    /\ pc = "generated"
    /\ decls = <<>>
    /\ moduleName = <<>>
    /\ ~code.threw

\* C12: a declaration of any kind with an empty name is rendered without
\* failure and with the placeholder _unnamed where the name stands: right
\* after the kind keyword, before the type, the parameters or the "=".
C12_UnnamedPlaceholder ==
    (pc = "rendered" /\ decls[1].name = <<>>) =>
        LET f == code.text
            k == IF f[3] = "pure" THEN 5 ELSE 3
        IN  /\ ~code.threw
            /\ startsWith(f, Ind2)
            /\ f[k] = decls[1].kind
            /\ f[k + 1] = " "
            /\ f[k + 2] = "_unnamed"
            /\ f[k + 3] \in {":", " ", "("}

\* C12 witness: an unnamed pure def with parameters was rendered.
C12_Witness ==
    /\ pc = "rendered"
    /\ decls[1].name = <<>>
    /\ decls[1].kind = "def"
    /\ decls[1].pure = "true"
    /\ decls[1].params = <<"p">>
    /\ ~code.threw

\* the positions at which two collections of equal length differ in role
RoleDiffers(ds, es) == { i \in 1..Len(ds) : ds[i].role # es[i].role }

\* C13 as worded: two collections that differ only in the role of
\* declarations of kind var, const, def, type or assume are compiled to
\* identical output.
C13_RoleIgnoredAsWorded ==
    (/\ pc = "compared"
     /\ \A i \in RoleDiffers(decls, decls2) :
            decls[i].kind \in {"var", "const", "def", "type", "assume"})
        => code = code2

\* C13 amended: two collections that differ only in the role of
\* declarations of kind var, const, type or assume are compiled to
\* identical output (a def tagged as invariant is read by the run synthesis).
C13_RoleIgnoredOffDef ==
    (/\ pc = "compared"
     /\ \A i \in RoleDiffers(decls, decls2) :
            decls[i].kind \in {"var", "const", "type", "assume"})
        => code = code2

\* C13 witness: with an initializer, a step and a run in the output, a var
\* was retagged as invariant and both collections were compiled.
C13_Witness ==
    /\ pc = "compared"
    /\ SynthRuns(code.text, decls) # {}
    /\ RoleDiffers(decls, decls2) # {}
    /\ \A i \in RoleDiffers(decls, decls2) :
           decls[i].kind = "var" /\ decls2[i].role = "invariant"
    /\ code = code2

\* the failures of a call the claim lists
ListedFailures == {"fetch", "exit", "killed"}

RECURSIVE NonBlankLinesOf(_, _)
NonBlankLinesOf(lines, i) ==
    IF i > Len(lines) THEN <<>>
    ELSE (IF trim(lines[i]) = <<>> THEN <<>> ELSE <<lines[i]>>)
             \o NonBlankLinesOf(lines, i + 1)

\* a body of several lines none of which binds with nondet or val
PlainMultiLine(body) ==
    LET lines == split(body, "\n")
    IN  /\ Len(lines) > 1
        /\ \A i \in 1..Len(lines) : ~isBindingLine(lines[i])

\* a body that opens with the keyword all or any
OpensBlock(body) ==
    LET t == trimStart(body)
    IN  t # <<>> /\ t[1] \in {"all", "any"}

\* C15: an action whose body has several lines, none a nondet or val
\* binding, and does not open with all or any, is rendered as an all-block:
\* the header line ends in "= all {", the last line is the closing brace,
\* and between them stands one clause per non-blank line of the body, in
\* the body's order, each the trimmed line indented by four blanks and
\* ending in one comma: the line's own when it has one, an appended one
\* otherwise (a body of blank lines only leaves one empty line there).
C15_AllBlockClauses ==
    (/\ pc = "rendered"
     /\ decls[1].kind = "action"
     /\ PlainMultiLine(decls[1].body)
     /\ ~OpensBlock(decls[1].body)) =>
        LET out == split(code.text, "\n")
            kept == NonBlankLinesOf(split(decls[1].body, "\n"), 1)
            head == out[1]
            n == Len(head)
        IN  /\ ~code.threw
            /\ Len(out) = (IF kept = <<>> THEN 1 ELSE Len(kept)) + 2
            /\ kept = <<>> => out[2] = <<>>
            /\ n > 5 /\ SubSeq(head, n - 4, n) = <<"=", " ", "all", " ", "{">>
            /\ out[Len(out)] = <<" ", " ", "}">>
            /\ \A k \in 1..Len(kept) :
                   LET line == trim(kept[k])
                       clause == out[k + 1]
                       m == Len(clause)
                   IN  /\ clause[m] = ","
                       /\ clause[m - 1] # ","
                       /\ clause = Ind4 \o line
                              \/ (line[Len(line)] # "," /\ clause = Ind4 \o line \o <<",">>)

\* C15 witness: an action body of three lines, one blank, one with its own
\* comma and one without, was rendered as an all-block of two clauses.
C15_Witness ==
    /\ pc = "rendered"
    /\ decls[1].kind = "action"
    /\ decls[1].body = <<" ", " ", "y'", " ", "=", " ", "2", ",", " ", "\n", "\n",
                         "x'", " ", "=", " ", "1">>
    /\ Len(split(code.text, "\n")) = 4

\* the text is a bare block around the body: a header line ending in "= {",
\* every line of the body in order behind four blanks, the closing brace
BareBlockOf(text, body) ==
    LET out == split(text, "\n")
        lines == split(body, "\n")
        head == out[1]
        n == Len(head)
    IN  /\ Len(out) = Len(lines) + 2
        /\ n > 3 /\ SubSeq(head, n - 2, n) = <<"=", " ", "{">>
        /\ out[Len(out)] = <<" ", " ", "}">>
        /\ \A k \in 1..Len(lines) : out[k + 1] = Ind4 \o lines[k]

\* the text ends with the given tokens right after "= " and has one line
InlineAfterEquals(text, tokens) ==
    LET n == Len(text)
        m == Len(tokens)
    IN  /\ n > m + 3
        /\ SubSeq(text, n - m - 2, n) = <<" ", "=", " ">> \o tokens
        /\ (\A i \in 1..n : text[i] # "\n") \/ (\E i \in 1..m : tokens[i] = "\n")

\* C16: a def or an action is rendered as a bare block exactly when its
\* body has several lines and the all-block rule does not apply (the kind
\* is def, or a line binds with nondet or val, or the body opens with all
\* or any); a body of one line follows "= " on the same line; an empty
\* body is printed as the placeholder ???.
C16_BodyShape ==
    (pc = "rendered" /\ decls[1].kind \in {"def", "action"}) =>
        LET body == decls[1].body
            multi == Truthy(body) /\ Len(split(body, "\n")) > 1
            allRule == /\ decls[1].kind = "action"
                       /\ PlainMultiLine(body)
                       /\ ~OpensBlock(body)
        IN  /\ ~code.threw
            /\ (multi /\ ~allRule) <=> (multi /\ BareBlockOf(code.text, body))
            /\ (Truthy(body) /\ ~multi) => InlineAfterEquals(code.text, body)
            /\ ~Truthy(body) => InlineAfterEquals(code.text, <<"???">>)

\* the entries of history' are entries of history, unaltered and in place:
\* history is left alone, or cut behind the current entry and extended by
\* one new entry, the oldest entry dropped when that makes more than 50
HistoryOnlyDropped ==
    \/ history' = history
    \/ /\ history' # <<>>
       /\ LET pushed == Append(SubSeq(history, 1, historyIndex + 1),
                               history'[Len(history')])
          IN  \/ Len(pushed) <= 50 /\ history' = pushed
              \/ Len(pushed) > 50 /\ history' = Tail(pushed)

\* C17: the history never holds more than 50 snapshots, historyIndex stays
\* between -1 and the last index of the history and is -1 only while the
\* history is empty, and no step alters a stored snapshot: a step leaves
\* the history alone or pushes one snapshot, cutting the entries behind
\* the current one and dropping the oldest when the buffer is full.
C17_BoundedImmutableHistory ==
    /\ [](/\ Len(history) <= 50
          /\ -1 <= historyIndex
          /\ historyIndex <= Len(history) - 1
          /\ (historyIndex = -1 => history = <<>>))
    /\ [][HistoryOnlyDropped]_vars

\* C17 witness: an edit on a full history has evicted the oldest snapshot
\* and stored the canvas with a node on it as the fiftieth.
C17_Witness ==
    /\ Len(history) = 50
    /\ historyIndex = 49
    /\ history[1].moduleName = <<"Bank">>
    /\ history[50].nodes # <<>>

\* the box of a node inflated by the collision padding of 10
PaddedWidth(n) == (IF n.measured = <<>> THEN 200 ELSE n.measured[1]) + 10
PaddedHeight(n) == (IF n.measured = <<>> THEN 80 ELSE n.measured[2]) + 10
RightOf(n) == n.position.x + PaddedWidth(n)
BelowOf(n) == n.position.y + PaddedHeight(n)
OverlapX(a, b) ==
    (IF RightOf(a) < RightOf(b) THEN RightOf(a) ELSE RightOf(b))
        - (IF a.position.x > b.position.x THEN a.position.x ELSE b.position.x)
OverlapY(a, b) ==
    (IF BelowOf(a) < BelowOf(b) THEN BelowOf(a) ELSE BelowOf(b))
        - (IF a.position.y > b.position.y THEN a.position.y ELSE b.position.y)
Overlapping(a, b) == OverlapX(a, b) > 0 /\ OverlapY(a, b) > 0

\* the nodes of an array that have the given parent, in order
SiblingsOf(ns, parent) ==
    LET under(n) == n.parentId = parent
    IN  SelectSeq(ns, under)

\* i and j are two overlapping nodes and the only ones under their parent
LonePair(i, j) ==
    /\ i # j
    /\ nodes[i].parentId = nodes[j].parentId
    /\ Len(SiblingsOf(nodes, nodes[i].parentId)) = 2
    /\ Overlapping(nodes[i], nodes[j])

\* C18: resolveCollisions leaves every node outside the moved set where it
\* was, whatever overlaps; with an empty moved set it returns the array it
\* was given; and nodes of different parents never displace each other: the
\* nodes under one parent end where they end when resolveCollisions is given
\* them alone.
C18_OnlyMovedSiblingsDisplaced ==
    pc = "resolved" =>
        /\ Len(resolved) = Len(nodes)
        /\ \A i \in 1..Len(nodes) :
               nodes[i].id \notin movedSet => resolved[i] = nodes[i]
        /\ movedSet = {} => resolved = nodes
        /\ \A i \in 1..Len(nodes) :
               SiblingsOf(resolved, nodes[i].parentId)
                   = resolveCollisions(SiblingsOf(nodes, nodes[i].parentId), movedSet)

\* C18 witness: a node that was not moved overlaps a moved sibling and a
\* node of another parent; the moved sibling was displaced, the other two
\* were not.
C18_Witness ==
    /\ pc = "resolved"
    /\ Len(nodes) = 3
    /\ movedSet = {2}
    /\ nodes[1].parentId = NoId /\ nodes[2].parentId = NoId /\ nodes[3].parentId = 9
    /\ Overlapping(nodes[1], nodes[2])
    /\ Overlapping(nodes[1], nodes[3])
    /\ resolved[2].position # nodes[2].position
    /\ resolved[1] = nodes[1]
    /\ resolved[3] = nodes[3]

\* C19: of two overlapping siblings of which exactly one is moving, the
\* moving one is displaced on one axis only: when the x-overlap is strictly
\* smaller than the y-overlap its x becomes flush with the padded edge of
\* the stationary box (right behind it, or its own padded box right before
\* it) and its y is unchanged; otherwise its y becomes flush and its x is
\* unchanged; after that the two padded boxes no longer overlap.
C19_FlushOnSmallerAxis ==
    pc = "resolved" =>
        \A i, j \in 1..Len(nodes) :
            (LonePair(i, j) /\ nodes[i].id \in movedSet /\ nodes[j].id \notin movedSet) =>
                LET moving == nodes[i]
                    still == nodes[j]
                    after == resolved[i]
                IN  /\ resolved[j] = still
                    /\ IF OverlapX(moving, still) < OverlapY(moving, still)
                       THEN /\ after.position.y = moving.position.y
                            /\ after.position.x \in
                                   { RightOf(still), still.position.x - PaddedWidth(moving) }
                       ELSE /\ after.position.x = moving.position.x
                            /\ after.position.y \in
                                   { BelowOf(still), still.position.y - PaddedHeight(moving) }
                    /\ after.position # moving.position
                    /\ ~Overlapping(after, still)

\* C19 witness: the moving node overlapped the stationary one by less in x
\* than in y and now stands right of it at the same height.
C19_Witness ==
    /\ pc = "resolved"
    /\ Len(nodes) = 2
    /\ movedSet = {2}
    /\ LonePair(2, 1)
    /\ OverlapX(nodes[2], nodes[1]) < OverlapY(nodes[2], nodes[1])
    /\ resolved[2].position = [x |-> RightOf(nodes[1]), y |-> nodes[2].position.y]

\* C20: a node that resolveCollisions displaces along an axis is pushed to
\* the side of the blocker on which its own origin lies on that axis:
\* behind the blocker (right of it, below it) when its coordinate is
\* greater than or equal to the blocker's, so also when the two are equal,
\* and before it otherwise.
C20_PushedToOwnSide ==
    pc = "resolved" =>
        \A i, j \in 1..Len(nodes) :
            (LonePair(i, j) /\ resolved[i].position # nodes[i].position) =>
                LET stopped == nodes[i]
                    blocker == nodes[j]
                    after == resolved[i].position
                IN  /\ after.x # stopped.position.x =>
                           after.x = IF stopped.position.x >= blocker.position.x
                                     THEN RightOf(blocker)
                                     ELSE blocker.position.x - PaddedWidth(stopped)
                    /\ after.y # stopped.position.y =>
                           after.y = IF stopped.position.y >= blocker.position.y
                                     THEN BelowOf(blocker)
                                     ELSE blocker.position.y - PaddedHeight(stopped)

\* C20 witness: a node that stood at the very coordinates of its blocker
\* was pushed below it.
C20_Witness ==
    /\ pc = "resolved"
    /\ \E i, j \in 1..Len(nodes) :
           /\ LonePair(i, j)
           /\ nodes[i].position = nodes[j].position
           /\ resolved[i].position.y = BelowOf(nodes[j])
           /\ resolved[i].position.x = nodes[i].position.x

\* the right and the bottom extent of a child, 220 by 80 while unmeasured
RightExtent(n) == n.position.x + (IF n.measured = <<>> THEN 220 ELSE n.measured[1])
BottomExtent(n) == n.position.y + (IF n.measured = <<>> THEN 80 ELSE n.measured[2])
\* the greatest of a finite non-empty set of numbers
Greatest(S) == CHOOSE m \in S : \A x \in S : x <= m

\* the nodes of the array whose parent is the given group
DirectChildren(ns, g) == { i \in 1..Len(ns) : ns[i].parentId = g.id }

\* resizeGroups has returned an array in which every group with a child has
\* the size that rightOf and bottomOf give for its children, and every
\* other node is the node it was
SizedBy(rightOf(_), bottomOf(_)) ==
    /\ Len(resolved) = Len(nodes)
    /\ \A i \in 1..Len(nodes) :
           LET before == nodes[i]
               kids == DirectChildren(nodes, before)
           IN  IF before.type = "role-group" /\ kids # {}
               THEN /\ resolved[i].style =
                           << rightOf({ RightExtent(nodes[k]) : k \in kids }) + 15,
                              bottomOf({ BottomExtent(nodes[k]) : k \in kids }) + 15 + 40 >>
                    /\ [resolved[i] EXCEPT !.style = before.style] = before
               ELSE resolved[i] = before
    /\ resizeGroups(resolved) = resolved

\* the greatest extent, and the greatest extent or 0 when all are negative
AtLeastZero(S) == Greatest(S \cup {0})

\* C21 as worded: after resizeGroups every role group with a direct child
\* is as wide as the greatest right extent of its children plus 15 and as
\* high as their greatest bottom extent plus 15 plus 40; other nodes are
\* unchanged and a second resizeGroups changes nothing.
C21_TightFitAsWorded == pc = "resized" => SizedBy(Greatest, Greatest)

\* C21: the same, the greatest extent taken as 0 when every child ends left
\* of or above the group's origin.
C21_TightFitFromOrigin == pc = "resized" => SizedBy(AtLeastZero, AtLeastZero)

\* C21 witness: a group whose size did not fit was given the size of its
\* two children, one of them measured, and a childless group was left as
\* it was.
C21_Witness ==
    /\ pc = "resized"
    /\ Len(nodes) = 4
    /\ nodes[2].type = "role-group"
    /\ nodes[3].parentId = 1 /\ nodes[4].parentId = 1
    /\ nodes[3].measured # nodes[4].measured
    /\ nodes[1].style = <<235, 175>>
    /\ resolved[1].style # nodes[1].style
    /\ resolved[2] = nodes[2]

\* C22: when the generated module holds a synthesized run, which calls
\* init and step, it also holds a declaration of an action named init and
\* one of an action named step, written by the user or synthesized.
C22_RunHasInitAndStep ==
    pc = "generated" =>
        (SynthRuns(code.text, decls) # {} =>
            /\ RenderedActions(code.text, "init") # {}
            /\ RenderedActions(code.text, "step") # {})

\* C22 witness: a run was synthesized with the user's own init and a
\* synthesized step over a single role=step action.
C22_Witness ==
    /\ pc = "generated"
    /\ SynthRuns(code.text, decls) # {}
    /\ ActionsNamed(decls, "init") # {}
    /\ SynthInits(code.text, decls) = {}
    /\ Len(RoleActionSeq(decls, "step")) = 1
    /\ SynthSteps(code.text, decls) # {}

\* the identifier a call line "    <name>(<args>)," starts with
CalledIdentifier(line) ==
    LET call == SubSeq(line, 5, Len(line))
        ends == { i \in 1..Len(call) : call[i] \in {"(", ","} }
        stop == IF ends = {} THEN Len(call) + 1
                ELSE CHOOSE i \in ends : \A j \in ends : i <= j
    IN  SubSeq(call, 1, stop - 1)

\* the identifiers a synthesized init refers to, in order
InitReferences(f) ==
    LET lines == split(f, "\n")
    IN  IF Len(lines) = 1 THEN << SubSeq(f, 9, Len(f)) >>
        ELSE [k \in 1..(Len(lines) - 2) |-> CalledIdentifier(lines[k + 1])]

\* the identifiers a synthesized step calls, in order
StepReferences(f) ==
    LET lines == split(f, "\n")
        isCall(l) == /\ startsWith(l, <<" ", " ", " ", " ">>)
                     /\ ~IsBinding(l)
                     /\ l # <<" ", " ", " ", " ", "any", " ", "{">>
                     /\ l # <<" ", " ", " ", " ", "}">>
    IN  Map(CalledIdentifier, SelectSeq(lines, isCall))

\* the identifiers under which the actions of a role are declared in the
\* generated text, in collection order
DeclaredIdentifiers(text, ds, r) ==
    LET uf == UserFragments(text, ds)
        has(i) == ds[i].kind = "action" /\ ds[i].role = r
        idx == SelectSeq([i \in 1..Len(ds) |-> i], has)
    IN  [k \in 1..Len(idx) |-> << FragmentName(uf[ClaimedPosition(ds, idx[k])]) >>]

\* C23: a synthesized init and a synthesized step refer to every action of
\* their role by the identifier under which that action is declared in the
\* same text, the placeholder _unnamed for an action without a name.
C23_ReferencesMatchDeclarations ==
    pc = "generated" =>
        LET app == Appended(code.text, decls)
        IN  /\ ~code.threw
            /\ \A i \in SynthInitsOf(app) :
                   InitReferences(app[i]) = DeclaredIdentifiers(code.text, decls, "init")
            /\ \A i \in SynthStepsOf(app) :
                   StepReferences(app[i]) = DeclaredIdentifiers(code.text, decls, "step")

\* the argument names between the parentheses of a call line
ArgumentsOf(line) ==
    LET open == { i \in 1..Len(line) : line[i] = "(" }
        close == { i \in 1..Len(line) : line[i] = ")" }
    IN  IF open = {} \/ close = {} THEN {}
        ELSE LET from == CHOOSE i \in open : \A j \in open : i <= j
                 to == CHOOSE i \in close : \A j \in close : j <= i
             IN  { line[i] : i \in (from + 1)..(to - 1) } \ {",", " "}

\* the call lines of a synthesized step
CallLines(f) ==
    LET isCall(l) == /\ startsWith(l, <<" ", " ", " ", " ">>)
                     /\ ~IsBinding(l)
                     /\ l # <<" ", " ", " ", " ", "any", " ", "{">>
                     /\ l # <<" ", " ", " ", " ", "}">>
    IN  SelectSeq(split(f, "\n"), isCall)

\* C24: in a synthesized step every argument name of a call is bound by
\* exactly one nondet binding of that step, and every binding binds a name
\* that some call passes.
C24_ArgumentsBoundOnce ==
    pc = "generated" =>
        LET app == Appended(code.text, decls)
        IN  \A i \in SynthStepsOf(app) :
                LET bl == BindingLines(app[i])
                    calls == CallLines(app[i])
                    used == UNION { ArgumentsOf(calls[k]) : k \in 1..Len(calls) }
                IN  /\ \A n \in used :
                           Cardinality({ j \in 1..Len(bl) : bl[j][7] = n }) = 1
                    /\ \A j \in 1..Len(bl) : bl[j][7] \in used

\* C24 witness: a step was synthesized in which two calls pass the same
\* name and one of them a second name of its own.
C24_Witness ==
    /\ pc = "generated"
    /\ \E i \in SynthSteps(code.text, decls) :
           LET calls == CallLines(Appended(code.text, decls)[i])
           IN  \E j, k \in 1..Len(calls) :
                   /\ j # k
                   /\ "x" \in ArgumentsOf(calls[j]) \cap ArgumentsOf(calls[k])
                   /\ "y" \in ArgumentsOf(calls[k]) \ ArgumentsOf(calls[j])
                   /\ Len(BindingLines(Appended(code.text, decls)[i])) = 3

\* C25: when an undo changed nodes, edges or moduleName, the redo called
\* right after it leaves the three exactly as that undo found them.
C25_RedoRestoresUndone ==
    (lastCalls = <<"undo", "redo">> /\ beforeUndo.changed)
        => HistoryEntry(nodes, edges, moduleName) = beforeUndo.found

\* every node of ns with a parentId has a role-group node of that id in ns;
\* the id no node ever had is the parent given by a call of addNodeToGroup
\* for a group that never was, a call the canvas does not make
ParentsPresent(ns) ==
    \A i \in 1..Len(ns) :
        ns[i].parentId \notin {NoId, MissingId}
            => \E j \in 1..Len(ns) :
                   ns[j].id = ns[i].parentId /\ ns[j].type = "role-group"

\* C26: every node with a parentId has a role-group node of that id among
\* the nodes after any sequence of store operations; in particular a call of
\* deleteDeclNode on nodes where that holds leaves nodes where it holds.
C26_DeleteKeepsParents ==
    [][(ParentsPresent(nodes) /\ lastCalls' # <<>>
            /\ lastCalls'[Len(lastCalls')] = "deleteDeclNode" /\ ops' = ops + 1)
        => ParentsPresent(nodes')]_vars

\* C27: every edge's source and its target are ids of nodes of the canvas
C27_EdgesJoinNodes ==
    \A i \in 1..Len(edges) :
        /\ \E j \in 1..Len(nodes) : nodes[j].id = edges[i].source
        /\ \E j \in 1..Len(nodes) : nodes[j].id = edges[i].target

\* C27 witness: deleteDeclNode has taken away a node that edges ended at,
\* and other nodes are left
C27_Witness ==
    /\ lastCalls # <<>>
    /\ lastCalls[Len(lastCalls)] = "deleteDeclNode"
    /\ beforeEdit.edges # <<>>
    /\ Len(nodes) >= 1
    /\ Len(nodes) < Len(beforeEdit.nodes)
    /\ Len(edges) < Len(beforeEdit.edges)

\* the declarations getQuintCode hands to declsToQuint
CanvasDecls ==
    LET isDecl(n) == n.type # "role-group"
        dataOf(n) == n.data
    IN  Map(dataOf, SelectSeq(nodes, isDecl))

\* the conjunction a run asserts: what stands in step.expect(...), and the
\* empty text for a run without assertion
Asserted(expr) ==
    IF expr = TwentyStepsFromInit(<<"step">>) THEN <<>>
    ELSE SubSeq(expr, 17, Len(expr) - 3)

\* C28: the invariant a run request carries is the conjunction the
\* synthesized run of the request's code asserts, name by name in the same
\* order, and is 'true' exactly when that run asserts nothing.
C28_RequestNamesAssertion ==
    \A k \in 1..Len(requests) :
        requests[k].endpoint = "run" =>
            LET app == Appended(requests[k].body.code, CanvasDecls)
            IN  \A i \in SynthRunsOf(app) :
                    LET asserted == Asserted(RunExpression(app[i]))
                    IN  /\ (requests[k].body.invariant = <<"true">>) <=> (asserted = <<>>)
                        /\ asserted # <<>> => requests[k].body.invariant = asserted

\* C29: the module an eval request names is the module its code declares
C29_EvalNamesDeclaredModule ==
    \A k \in 1..Len(requests) :
        requests[k].endpoint = "eval" =>
            requests[k].body.module = <<requests[k].body.code[3]>>

\* C30: loading is true as long as a request has been sent and not
\* answered, whatever the order in which the requests are answered
C30_LoadingWhileInFlight ==
    (\E k \in 1..Len(requests) : requests[k].phase = "sent") => panel.loading

====
